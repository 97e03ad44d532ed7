------------------------- MODULE EventReplanProofs -------------------------
(***************************************************************************)
(* Theorems about the schedule of a plan, for any routes a model may       *)
(* propose, any edits and any events.                                      *)
(*                                                                         *)
(* A confirmed route is sound because Order is a queue: it takes each task *)
(* once, after those it depends on, and never a later week while an        *)
(* earlier one is open.  A replan is sound because each check of           *)
(* compileEventReplan on the moved tasks is one clause of Sound on the     *)
(* plan they lead to, and nothing else of the plan has changed; read the   *)
(* other way, a sound replan meets no check that refuses it.               *)
(***************************************************************************)
EXTENDS EventReplan, DataLemmas

-----------------------------------------------------------------------------
(* Days and weeks.                                                         *)

LEMMA LeastIs ==
  ASSUME NEW S, NEW m \in S, S \subseteq Int, \A n \in S : m <= n
  PROVE  Least(S) = m
<1>1. Least(S) \in S /\ \A n \in S : Least(S) <= n
  BY DEF Least
<1>2. Least(S) <= m /\ m <= Least(S) /\ Least(S) \in Int /\ m \in Int
  BY <1>1
<1>3. QED BY <1>2

LEMMA GreatestIs ==
  ASSUME NEW S, NEW m \in S, S \subseteq Int, \A n \in S : n <= m
  PROVE  Greatest(S) = m
<1>1. Greatest(S) \in S /\ \A n \in S : n <= Greatest(S)
  BY DEF Greatest
<1>2. Greatest(S) <= m /\ m <= Greatest(S) /\ Greatest(S) \in Int /\ m \in Int
  BY <1>1
<1>3. QED BY <1>2

LEMMA OfTwo ==
  ASSUME NEW a \in Int, NEW b \in Int
  PROVE  /\ Least({a, b}) = IF a <= b THEN a ELSE b
         /\ Greatest({a, b}) = IF a <= b THEN b ELSE a
<1> DEFINE S == {a, b}
<1>1. S \subseteq Int /\ a \in S /\ b \in S /\ \A n \in S : n = a \/ n = b
  OBVIOUS
<1> HIDE DEF S
<1>2. CASE a <= b
  <2>1. (\A n \in S : a <= n) /\ \A n \in S : n <= b
    BY <1>1, <1>2
  <2>2. Least(S) = a /\ Greatest(S) = b
    BY <1>1, <2>1, LeastIs, GreatestIs
  <2>3. QED BY <1>2, <2>2 DEF S
<1>3. CASE ~ a <= b
  <2>1. (\A n \in S : b <= n) /\ \A n \in S : n <= a
    BY <1>1, <1>3
  <2>2. Least(S) = b /\ Greatest(S) = a
    BY <1>1, <2>1, LeastIs, GreatestIs
  <2>3. QED BY <1>3, <2>2 DEF S
<1>4. QED BY <1>2, <1>3

\* A quotient is the number of whole parts.
LEMMA Quotient ==
  ASSUME NEW a \in Int, NEW b \in Nat \ {0}
  PROVE  /\ a \div b \in Int /\ b * (a \div b) <= a /\ a < b * (a \div b) + b
         /\ \A q \in Int : b * q <= a /\ a < b * q + b => q = a \div b
<1>1. a \div b \in Int /\ b * (a \div b) <= a /\ a < b * (a \div b) + b
  OBVIOUS
<1>2. ASSUME NEW q \in Int, b * q <= a, a < b * q + b PROVE q = a \div b
  <2> DEFINE p == a \div b
  <2>1. p \in Int /\ b * p <= a /\ a < b * p + b
    BY <1>1
  <2> HIDE DEF p
  <2>2. b * q < b * (p + 1) /\ b * p < b * (q + 1)
    BY <1>2, <2>1
  <2>3. q < p + 1 /\ p < q + 1
    <3>1. \A x, y \in Int : b * x < b * y => x < y
      OBVIOUS
    <3>2. QED BY <2>1, <2>2, <3>1
  <2>4. p = q
    BY <2>1, <2>3
  <2>5. QED BY <2>4 DEF p
<1>3. QED BY <1>1, <1>2

\* The weeks until the target day are cut into its days.
LEMMA WeekBounds ==
  ASSUME NEW days \in Nat \ {0}
  PROVE  /\ WeekCount(days) \in Nat
         /\ \A w \in 1 .. WeekCount(days) :
              /\ WeekStart(w) \in Nat /\ WeekStart(w) < days
              /\ DaysOf(days, w) \in 1 .. WeekDays
              /\ DaysOf(days, w) = IF WeekDays <= days - WeekStart(w) THEN WeekDays ELSE days - WeekStart(w)
              /\ WeekEnd(days, w) \in Nat /\ WeekStart(w) <= WeekEnd(days, w) /\ WeekEnd(days, w) < days
<1> DEFINE n == (days + WeekDays - 1) \div WeekDays
<1>0. WeekDays \in Nat \ {0}
  BY RouteBounds
<1>1. n \in Int /\ WeekDays * n <= days + WeekDays - 1 /\ WeekCount(days) = n
  BY <1>0, Quotient DEF WeekCount
<1>2. n >= 0
  BY <1>0
<1>3. ASSUME NEW w \in 1 .. n
      PROVE  /\ WeekStart(w) \in Nat /\ WeekStart(w) < days
             /\ DaysOf(days, w) \in 1 .. WeekDays
             /\ DaysOf(days, w) = IF WeekDays <= days - WeekStart(w) THEN WeekDays ELSE days - WeekStart(w)
             /\ WeekEnd(days, w) \in Nat /\ WeekStart(w) <= WeekEnd(days, w) /\ WeekEnd(days, w) < days
  <2> HIDE DEF n
  <2>1. w - 1 \in Nat /\ w <= n /\ WeekStart(w) = (w - 1) * WeekDays
    BY <1>1, <1>2 DEF WeekStart
  <2>2. WeekStart(w) \in Nat
    BY <1>0, <2>1
  <2>3. WeekDays * w <= WeekDays * n
    BY <1>0, <1>1, <2>1
  <2>4. WeekDays * w = (w - 1) * WeekDays + WeekDays
    BY <1>0, <2>1
  <2>5. WeekStart(w) < days
    BY <1>0, <1>1, <2>1, <2>2, <2>3, <2>4
  <2>6. DaysOf(days, w) = IF WeekDays <= days - WeekStart(w) THEN WeekDays ELSE days - WeekStart(w)
    BY <1>0, <2>2, OfTwo DEF DaysOf
  <2>7. QED BY <1>0, <2>2, <2>5, <2>6 DEF WeekEnd
<1>4. QED BY <1>1, <1>2, <1>3

\* Weeks follow each other.
LEMMA WeekOrder ==
  ASSUME NEW days \in Nat \ {0}, NEW v \in 1 .. WeekCount(days), NEW w \in 1 .. WeekCount(days)
  PROVE  /\ v <= w => WeekStart(v) <= WeekStart(w) /\ WeekEnd(days, v) <= WeekEnd(days, w)
         /\ WeekStart(v) = WeekStart(w) => v = w
<1>0. WeekDays \in Nat \ {0} /\ WeekCount(days) \in Nat
  BY RouteBounds, WeekBounds
<1> DEFINE x == v - 1
           y == w - 1
<1>1. x \in Nat /\ y \in Nat /\ (v <= w <=> x <= y) /\ (v = w <=> x = y)
  BY <1>0
<1>2. WeekStart(v) = x * WeekDays /\ WeekStart(w) = y * WeekDays
  BY DEF WeekStart
<1> HIDE DEF x, y
<1>3. x <= y => x * WeekDays <= y * WeekDays
  BY <1>0, <1>1
<1>4. x < y => x * WeekDays < y * WeekDays
  BY <1>0, <1>1
<1>5. y < x => y * WeekDays < x * WeekDays
  BY <1>0, <1>1
<1>6. x * WeekDays \in Nat /\ y * WeekDays \in Nat
  BY <1>0, <1>1
<1>7. WeekStart(v) = WeekStart(w) => v = w
  BY <1>1, <1>2, <1>4, <1>5, <1>6
<1>8. v <= w => WeekEnd(days, v) <= WeekEnd(days, w)
  <2> DEFINE a == WeekStart(v)
             b == WeekStart(w)
             End(c) == c + (IF WeekDays <= days - c THEN WeekDays ELSE days - c) - 1
  <2>1. WeekEnd(days, v) = End(a) /\ WeekEnd(days, w) = End(b)
    BY WeekBounds DEF WeekEnd
  <2>2. v <= w => a <= b
    BY <1>1, <1>2, <1>3
  <2>3. a \in Nat /\ b \in Nat
    BY <1>2, <1>6
  <2> HIDE DEF a, b
  <2>4. a <= b => End(a) <= End(b)
    BY <1>0, <2>3
  <2> HIDE DEF End
  <2>5. QED BY <2>1, <2>2, <2>4
<1>9. QED BY <1>1, <1>2, <1>3, <1>7, <1>8

\* The days of a week, counted.
LEMMA DaysOfWeek ==
  ASSUME NEW days \in Nat \ {0}, NEW w \in 1 .. WeekCount(days)
  PROVE  Cardinality({d \in 0 .. days - 1 : d \div WeekDays = w - 1}) = DaysOf(days, w)
<1> DEFINE S == {d \in 0 .. days - 1 : d \div WeekDays = w - 1}
           a == WeekStart(w)
           b == WeekEnd(days, w)
<1>0. WeekDays \in Nat \ {0} /\ WeekCount(days) \in Nat /\ w - 1 \in Nat
  BY RouteBounds, WeekBounds
<1>1. /\ a \in Nat /\ b \in Nat /\ a <= b /\ b < days /\ b = a + DaysOf(days, w) - 1
      /\ DaysOf(days, w) = (IF WeekDays <= days - a THEN WeekDays ELSE days - a)
  BY WeekBounds DEF WeekEnd
<1>2. a = WeekDays * (w - 1)
  BY <1>0 DEF WeekStart
<1> HIDE DEF a, b
<1>3. ASSUME NEW d \in 0 .. days - 1 PROVE d \div WeekDays = w - 1 <=> d \in a .. b
  <2>1. d \in Int /\ d \div WeekDays \in Int
    BY <1>0
  <2>2. d \div WeekDays = w - 1 => a <= d /\ d < a + WeekDays
    BY <1>0, <1>2, <2>1, Quotient
  <2>3. a <= d /\ d < a + WeekDays => d \div WeekDays = w - 1
    <3>1. \A q \in Int : WeekDays * q <= d /\ d < WeekDays * q + WeekDays => q = d \div WeekDays
      BY <1>0, <2>1, Quotient
    <3>2. w - 1 \in Int
      BY <1>0
    <3>3. QED BY <1>2, <3>1, <3>2
  <2>4. d \in a .. b <=> a <= d /\ d < a + WeekDays
    BY <1>0, <1>1, <2>1
  <2>5. QED BY <2>2, <2>3, <2>4
<1>4. a .. b \subseteq 0 .. days - 1
  BY <1>1
<1>5. S = a .. b
  BY <1>3, <1>4
<1>6. Cardinality(a .. b) = b - a + 1
  <2>1. a \in Int /\ b \in Int /\ ~ a > b
    BY <1>1
  <2>2. QED BY <2>1, FS_Interval, Zenon
<1>7. b - a + 1 = DaysOf(days, w)
  BY <1>0, <1>1
<1>8. QED BY <1>5, <1>6, <1>7

-----------------------------------------------------------------------------
(* Routes that are acceptable.                                             *)

\* The tasks and their places.
LEMMA RoutePlaces ==
  ASSUME NEW r, NEW days \in Nat \ {0}, IsRoute(r), Acceptable(r, days)
  PROVE  /\ Len(r.tasks) \in Nat /\ Places(r) = 1 .. Len(r.tasks) /\ IsFiniteSet(Places(r))
         /\ \A i, j \in Places(r) : r.tasks[i].id = r.tasks[j].id => i = j
         /\ \A i \in Places(r) : /\ r.tasks[i].id \in TasksOf(r)
                                 /\ TaskNamed(r, r.tasks[i].id) = r.tasks[i]
         /\ \A t \in TasksOf(r) : \E i \in Places(r) : t = r.tasks[i].id
         /\ IsFiniteSet(TasksOf(r)) /\ Cardinality(TasksOf(r)) = Len(r.tasks)
         /\ TasksOf(r) \cap DOMAIN r.milestones = {}
<1>1. r.tasks \in Seq(ToSet(r.tasks))
  BY DEF IsRoute
<1>2. Len(r.tasks) \in Nat /\ Places(r) = 1 .. Len(r.tasks)
  BY <1>1 DEF Places
<1>3. IsFiniteSet(Places(r)) /\ Cardinality(Places(r)) = Len(r.tasks)
  BY <1>2, FS_Interval
<1>4. Cardinality(TasksOf(r)) = Len(r.tasks) /\ TasksOf(r) \cap DOMAIN r.milestones = {}
  BY DEF Acceptable, TasksFit
<1> DEFINE id == [i \in Places(r) |-> r.tasks[i].id]
           T == {id[i] : i \in Places(r)}
<1>5. T = TasksOf(r)
  BY DEF TasksOf
<1>6. \A i \in Places(r) : id[i] = r.tasks[i].id
  OBVIOUS
<1> HIDE DEF id
<1>7. IsFiniteSet(T) /\ \A i, j \in Places(r) : id[i] = id[j] => i = j
  BY <1>3, <1>4, <1>5, ImageFinite, ImageSize
<1>8. \A i, j \in Places(r) : r.tasks[i].id = r.tasks[j].id => i = j
  BY <1>6, <1>7
<1>9. ASSUME NEW i \in Places(r) PROVE TaskNamed(r, r.tasks[i].id) = r.tasks[i]
  BY <1>8 DEF TaskNamed
<1>10. QED BY <1>2, <1>3, <1>4, <1>5, <1>7, <1>8, <1>9 DEF TasksOf

\* What is asked of each of them.
LEMMA RouteTasks ==
  ASSUME NEW r, NEW days \in Nat \ {0}, IsRoute(r), Acceptable(r, days), NEW i \in Places(r)
  PROVE  LET t == r.tasks[i]
         IN  /\ t.week \in 1 .. WeekCount(days) /\ t.hours \in Nat /\ t.hours > 0
             /\ t.milestone \in DOMAIN r.milestones
             /\ LET m == r.milestones[t.milestone]
                IN  /\ m.start \in 1 .. WeekCount(days) /\ m.end \in 1 .. WeekCount(days)
                    /\ m.start <= t.week /\ t.week <= m.end
             /\ \A p \in t.dependsOn : \E j \in Places(r) :
                  p = r.tasks[j].id /\ r.tasks[j].week <= t.week
<1> DEFINE t == r.tasks[i]
           m == r.milestones[t.milestone]
<1>0. WeekCount(days) \in Nat
  BY WeekBounds
<1>1. t \in ToSet(r.tasks)
  BY DEF Places, ToSet
<1>2. t.week \in Nat \ {0} /\ t.hours \in Nat
  BY <1>1 DEF IsRoute
<1>3. /\ t.week <= WeekCount(days) /\ t.hours > 0 /\ t.milestone \in DOMAIN r.milestones
      /\ t.week >= m.start /\ t.week <= m.end /\ PriorTasks(r, t)
  BY DEF Acceptable, TasksFit
<1>4. m.start \in Nat \ {0} /\ m.end \in Nat \ {0} /\ m.start <= m.end /\ m.end <= WeekCount(days)
  BY <1>3 DEF Acceptable, MilestonesFit, IsRoute
<1>5. ASSUME NEW p \in t.dependsOn PROVE \E j \in Places(r) : p = r.tasks[j].id /\ r.tasks[j].week <= t.week
  <2>1. p \in TasksOf(r) /\ TaskNamed(r, p).week <= t.week
    BY <1>3, <1>5 DEF PriorTasks
  <2>2. PICK j \in Places(r) : p = r.tasks[j].id
    BY <2>1, RoutePlaces
  <2>3. TaskNamed(r, p) = r.tasks[j]
    BY <2>2, RoutePlaces
  <2>4. QED BY <2>1, <2>2, <2>3
<1> HIDE DEF t, m
<1>6. t.week \in 1 .. WeekCount(days) /\ m.start \in 1 .. WeekCount(days) /\ m.end \in 1 .. WeekCount(days)
  BY <1>0, <1>2, <1>3, <1>4
<1>7. m.start <= t.week
  BY <1>2, <1>3, <1>4
<1>8. QED BY <1>2, <1>3, <1>5, <1>6, <1>7 DEF t, m

-----------------------------------------------------------------------------
(* The order of the tasks.                                                 *)

\* A task that is next is one of the earliest week.
LEMMA NextPlaceIs ==
  ASSUME NEW r, NEW days \in Nat \ {0}, IsRoute(r), Acceptable(r, days),
         NEW R \in SUBSET Places(r), R # {}
  PROVE  /\ NextPlace(r, R) \in R
         /\ \A j \in R : r.tasks[NextPlace(r, R)].week <= r.tasks[j].week
<1> DEFINE week(i) == r.tasks[i].week
           W == {week(i) : i \in R}
<1>1. ASSUME NEW i \in R PROVE week(i) \in Nat /\ i \in Nat
  <2>1. i \in Places(r) /\ Places(r) = 1 .. Len(r.tasks) /\ Len(r.tasks) \in Nat
    BY RoutePlaces
  <2>2. r.tasks[i].week \in 1 .. WeekCount(days)
    BY <2>1, RouteTasks
  <2>3. r.tasks[i].week \in Nat
    BY <2>2, WeekBounds
  <2>4. QED BY <2>1, <2>3
<1> HIDE DEF week
<1>2. W \subseteq Nat /\ W # {}
  BY <1>1
<1>3. PICK w \in W : \A v \in W : w <= v
  <2> HIDE DEF W
  <2>1. QED BY <1>2, LeastNumber
<1> DEFINE I == {i \in R : week(i) = w}
<1>4. I \subseteq Nat /\ I # {}
  BY <1>1, <1>3
<1>5. PICK i \in I : \A j \in I : i <= j
  <2> HIDE DEF I
  <2>1. QED BY <1>4, LeastNumber
<1>6. i \in R /\ \A j \in R : week(i) < week(j) \/ (week(i) = week(j) /\ i <= j)
  <2>1. ASSUME NEW j \in R PROVE week(i) < week(j) \/ (week(i) = week(j) /\ i <= j)
    <3>1. week(i) = w /\ w \in Nat /\ week(j) \in Nat /\ w <= week(j)
      BY <1>1, <1>2, <1>3
    <3>2. CASE week(j) = w
      BY <1>5, <3>1, <3>2
    <3>3. CASE week(j) # w
      BY <3>1, <3>3
    <3>4. QED BY <3>2, <3>3
  <2>2. QED BY <2>1
<1> DEFINE First(x) == \A j \in R : week(x) < week(j) \/ (week(x) = week(j) /\ x <= j)
<1>7. NextPlace(r, R) = CHOOSE x \in R : First(x)
  BY DEF NextPlace, week
<1>8. NextPlace(r, R) \in R /\ First(NextPlace(r, R))
  <2>1. \E x \in R : First(x)
    BY <1>6
  <2> HIDE DEF First
  <2>2. QED BY <1>7, <2>1
<1>9. ASSUME NEW j \in R PROVE week(NextPlace(r, R)) <= week(j)
  <2>1. week(NextPlace(r, R)) \in Nat /\ week(j) \in Nat
    BY <1>1, <1>8
  <2>2. week(NextPlace(r, R)) < week(j) \/ week(NextPlace(r, R)) = week(j)
    BY <1>8
  <2>3. QED BY <2>1, <2>2
<1>10. QED BY <1>8, <1>9 DEF week

\* The names of the tasks at the first places of p.
Named(p, r, n) == {r.tasks[p[j]].id : j \in 1 .. n}

\* p takes the places of the tasks in an order: each time one that is next, of
\* the earliest week.
IsQueue(p, r) ==
  /\ p \in [1 .. Len(r.tasks) -> Places(r)]
  /\ Order(r) \in Seq(TasksOf(r)) /\ Len(Order(r)) = Len(r.tasks)
  /\ \A k \in 1 .. Len(r.tasks) :
       /\ Order(r)[k] = r.tasks[p[k]].id
       /\ p[k] \in Ready(r, Named(p, r, k - 1))
       /\ \A j \in Ready(r, Named(p, r, k - 1)) : r.tasks[p[k]].week <= r.tasks[j].week

\* o is ordered, the function of which Order is the last value.
Grows(o, r, n) ==
  LET R == Ready(r, ToSet(o[n - 1]))
  IN  o[n] = IF R = {} THEN o[n - 1] ELSE Append(o[n - 1], r.tasks[NextPlace(r, R)].id)

IsOrdering(o, r) == o[0] = <<>> /\ \A n \in 1 .. Len(r.tasks) : Grows(o, r, n)

LEMMA OrderingExists ==
  ASSUME NEW r, NEW days \in Nat \ {0}, IsRoute(r), Acceptable(r, days)
  PROVE  \E o \in [0 .. Len(r.tasks) -> Seq(TasksOf(r))] :
           IsOrdering(o, r) /\ Order(r) = o[Len(r.tasks)]
<1> DEFINE N == Len(r.tasks)
           V == Seq(TasksOf(r))
           Step(s) == LET R == Ready(r, ToSet(s))
                      IN  IF R = {} THEN s ELSE Append(s, r.tasks[NextPlace(r, R)].id)
           Value(h, n) == IF n = 0 THEN <<>> ELSE Step(h[n - 1])
           IsIt(h) == h = [n \in 0 .. N |-> Value(h, n)]
           F == [x \in V \X (1 .. N) |-> Step(x[1])]
<1>1. N \in Nat /\ <<>> \in V
  BY RoutePlaces
<1>2. ASSUME NEW s \in V PROVE Step(s) \in V
  <2> DEFINE R == Ready(r, ToSet(s))
  <2>1. CASE R = {}
    BY <2>1
  <2>2. CASE R # {}
    <3>1. R \in SUBSET Places(r)
      BY DEF Ready
    <3> HIDE DEF R
    <3>2. NextPlace(r, R) \in Places(r)
      BY <2>2, <3>1, NextPlaceIs
    <3>3. r.tasks[NextPlace(r, R)].id \in TasksOf(r)
      BY <3>2, RoutePlaces
    <3>4. Step(s) = Append(s, r.tasks[NextPlace(r, R)].id)
      BY <2>2 DEF R
    <3> HIDE DEF Step
    <3>5. QED BY <3>3, <3>4, AppendProperties
  <2>3. QED BY <2>1, <2>2
<1> HIDE DEF Step, V, N
<1>3. \A s \in V : \A n \in 1 .. N : F[<<s, n>>] = Step(s)
  OBVIOUS
<1> HIDE DEF F
<1>4. \A s \in V : \A n \in 1 .. N : F[<<s, n>>] \in V
  BY <1>2, <1>3
<1>5. PICK g \in [0 .. N -> V] : IsRunOf(g, <<>>, N, F)
  BY <1>1, <1>4, RecursionExists
<1>6. IsIt(g)
  <2>1. ASSUME NEW n \in 0 .. N PROVE g[n] = Value(g, n)
    <3>1. CASE n = 0
      BY <1>5, <3>1 DEF IsRunOf
    <3>2. CASE n # 0
      <4>1. n \in 1 .. N /\ n - 1 \in 0 .. N
        BY <1>1, <3>2
      <4>2. g[n] = F[<<g[n - 1], n>>] /\ g[n - 1] \in V
        BY <1>5, <4>1 DEF IsRunOf
      <4>3. QED BY <1>3, <3>2, <4>1, <4>2
    <3>3. QED BY <3>1, <3>2
  <2> HIDE DEF Value
  <2>2. QED BY <2>1
<1> DEFINE o == CHOOSE h : IsIt(h)
<1>7. Order(r) = o[N]
  BY DEF Order, Step, N
<1>8. IsIt(o)
  <2> HIDE DEF IsIt
  <2>1. QED BY <1>6
<1> HIDE DEF o
<1>9. o[0] = <<>> /\ \A n \in 1 .. N : o[n] = Step(o[n - 1])
  <2>1. \A n \in 0 .. N : o[n] = Value(o, n)
    BY <1>8
  <2>2. 0 \in 0 .. N /\ \A n \in 1 .. N : n \in 0 .. N /\ n # 0
    BY <1>1
  <2>3. QED BY <2>1, <2>2
<1> DEFINE S == {n \in 0 .. N : o[n] \in V}
<1>10. 0 \in S
  BY <1>1, <1>9
<1>11. ASSUME NEW n \in 0 .. N - 1, n \in S PROVE n + 1 \in S
  <2>1. n + 1 \in 1 .. N /\ n + 1 \in 0 .. N /\ (n + 1) - 1 = n
    BY <1>1
  <2>2. o[n + 1] = Step(o[n])
    BY <1>9, <2>1
  <2>3. QED BY <1>2, <1>11, <2>1, <2>2
<1>12. 0 .. N \subseteq S
  <2> HIDE DEF S
  <2>1. QED BY <1>1, <1>10, <1>11, SegmentInduction
<1>13. o \in [0 .. N -> V]
  <2>1. o = [n \in 0 .. N |-> o[n]]
    BY <1>8
  <2>2. \A n \in 0 .. N : o[n] \in V
    BY <1>12
  <2>3. QED BY <2>1, <2>2
<1>14. IsOrdering(o, r)
  BY <1>9 DEF IsOrdering, Grows, Step, N
<1>15. QED BY <1>7, <1>13, <1>14 DEF N, V

\* The order takes a task at each step: else it would miss some.
LEMMA OrderIsFull ==
  ASSUME NEW r, NEW days \in Nat \ {0}, IsRoute(r), Acceptable(r, days),
         NEW o \in [0 .. Len(r.tasks) -> Seq(TasksOf(r))], IsOrdering(o, r), Order(r) = o[Len(r.tasks)]
  PROVE  \A k \in 1 .. Len(r.tasks) :
           /\ Len(o[k]) = k /\ Len(o[k - 1]) = k - 1
           /\ Ready(r, ToSet(o[k - 1])) # {}
<1> DEFINE N == Len(r.tasks)
           R(k) == Ready(r, ToSet(o[k - 1]))
           Full(n) == \A k \in 1 .. n : Len(o[k]) = k /\ Len(o[k - 1]) = k - 1 /\ R(k) # {}
           S == {n \in 0 .. N : Len(o[n]) \in Nat /\ Len(o[n]) <= n /\ (Len(o[n]) = n => Full(n))}
<1>1. N \in Nat /\ Len(o[N]) = N
  BY RoutePlaces DEF Acceptable, TasksFit
<1>2. o[0] = <<>> /\ \A n \in 1 .. N : Grows(o, r, n)
  BY DEF IsOrdering
<1>3. 0 \in S
  BY <1>1, <1>2
<1>4. ASSUME NEW n \in 0 .. N - 1, n \in S PROVE n + 1 \in S
  <2>1. n + 1 \in 1 .. N /\ n + 1 \in 0 .. N /\ (n + 1) - 1 = n /\ n \in Nat /\ n \in 0 .. N
    BY <1>1
  <2>2. o[n + 1] = IF R(n + 1) = {} THEN o[n] ELSE Append(o[n], r.tasks[NextPlace(r, R(n + 1))].id)
    BY <1>2, <2>1 DEF Grows
  <2>3. o[n] \in Seq(TasksOf(r)) /\ Len(o[n]) \in Nat /\ Len(o[n]) <= n /\ (Len(o[n]) = n => Full(n))
    BY <1>4, <2>1
  <2> HIDE DEF R, Full, N
  <2>4. CASE R(n + 1) = {}
    <3>1. Len(o[n + 1]) = Len(o[n])
      BY <2>2, <2>4
    <3>2. Len(o[n + 1]) \in Nat /\ Len(o[n + 1]) <= n + 1 /\ Len(o[n + 1]) # n + 1
      BY <2>1, <2>3, <3>1
    <3>3. QED BY <2>1, <3>2
  <2>5. CASE R(n + 1) # {}
    <3>1. NextPlace(r, R(n + 1)) \in Places(r)
      <4> DEFINE Q == R(n + 1)
      <4>1. Q \in SUBSET Places(r) /\ Q # {}
        BY <2>5 DEF R, Ready
      <4> HIDE DEF Q
      <4>2. NextPlace(r, Q) \in Places(r)
        BY <4>1, NextPlaceIs
      <4>3. QED BY <4>2 DEF Q
    <3>2. r.tasks[NextPlace(r, R(n + 1))].id \in TasksOf(r)
      BY <3>1, RoutePlaces
    <3>3. Len(o[n + 1]) = Len(o[n]) + 1
      BY <2>2, <2>3, <2>5, <3>2, AppendProperties
    <3>4. ASSUME Len(o[n + 1]) = n + 1 PROVE Full(n + 1)
      <4>1. Len(o[n]) = n /\ Full(n)
        BY <2>1, <2>3, <3>3, <3>4
      <4>2. ASSUME NEW k \in 1 .. n + 1 PROVE Len(o[k]) = k /\ Len(o[k - 1]) = k - 1 /\ R(k) # {}
        <5>1. CASE k = n + 1
          BY <2>1, <2>5, <3>4, <4>1, <5>1
        <5>2. CASE k # n + 1
          <6>1. k \in 1 .. n
            BY <2>1, <5>2
          <6>2. QED BY <4>1, <6>1 DEF Full
        <5>3. QED BY <5>1, <5>2
      <4>3. QED BY <4>2 DEF Full
    <3>5. Len(o[n + 1]) \in Nat /\ Len(o[n + 1]) <= n + 1
      BY <2>1, <2>3, <3>3
    <3>6. QED BY <2>1, <3>4, <3>5
  <2>6. QED BY <2>4, <2>5
<1>5. 0 .. N \subseteq S
  <2> HIDE DEF S, N
  <2>1. QED BY <1>1, <1>3, <1>4, SegmentInduction
<1>6. N \in S
  <2>1. N \in 0 .. N
    BY <1>1
  <2> HIDE DEF S, N
  <2>2. QED BY <1>5, <2>1
<1>7. QED BY <1>1, <1>6

LEMMA OrderIsQueue ==
  ASSUME NEW r, NEW days \in Nat \ {0}, IsRoute(r), Acceptable(r, days)
  PROVE  \E p : IsQueue(p, r)
<1> DEFINE N == Len(r.tasks)
<1>1. PICK o \in [0 .. N -> Seq(TasksOf(r))] : IsOrdering(o, r) /\ Order(r) = o[N]
  BY OrderingExists
<1> DEFINE R(k) == Ready(r, ToSet(o[k - 1]))
           p == [k \in 1 .. N |-> NextPlace(r, R(k))]
<1>2. N \in Nat
  BY RoutePlaces
<1>3. \A k \in 1 .. N : Len(o[k]) = k /\ Len(o[k - 1]) = k - 1 /\ R(k) # {}
  BY <1>1, OrderIsFull
<1>4. ASSUME NEW k \in 1 .. N
      PROVE  /\ p[k] \in R(k) /\ \A j \in R(k) : r.tasks[p[k]].week <= r.tasks[j].week
             /\ p[k] \in Places(r) /\ r.tasks[p[k]].id \in TasksOf(r)
  <2> DEFINE Q == R(k)
             q == NextPlace(r, Q)
  <2>1. Q \in SUBSET Places(r) /\ Q # {}
    BY <1>3 DEF Ready
  <2> HIDE DEF Q
  <2>2. q \in Q /\ \A j \in Q : r.tasks[q].week <= r.tasks[j].week
    BY <2>1, NextPlaceIs
  <2>3. p[k] = q
    BY DEF Q
  <2>4. r.tasks[q].id \in TasksOf(r)
    BY <2>1, <2>2, RoutePlaces
  <2> HIDE DEF q, p
  <2>5. QED BY <2>1, <2>2, <2>3, <2>4 DEF Q
<1>5. ASSUME NEW k \in 1 .. N
      PROVE  o[k - 1] \in Seq(TasksOf(r)) /\ o[k] = Append(o[k - 1], r.tasks[p[k]].id)
  <2>1. k - 1 \in 0 .. N
    BY <1>2
  <2>2. Grows(o, r, k)
    BY <1>1 DEF IsOrdering
  <2>3. QED BY <1>3, <2>1, <2>2 DEF Grows
<1>6. p \in [1 .. N -> Places(r)]
  BY <1>4
<1> HIDE DEF R, p
<1> DEFINE S == {n \in 0 .. N : \A k \in 1 .. n : o[n][k] = r.tasks[p[k]].id}
<1>7. 0 \in S
  BY <1>2
<1>8. ASSUME NEW n \in 0 .. N - 1, n \in S PROVE n + 1 \in S
  <2>1. n + 1 \in 1 .. N /\ n + 1 \in 0 .. N /\ (n + 1) - 1 = n
    BY <1>2
  <2> DEFINE m == n + 1
             s == o[n]
             x == r.tasks[p[m]].id
  <2>2. s \in Seq(TasksOf(r)) /\ o[m] = Append(s, x) /\ Len(s) = n /\ x \in TasksOf(r)
    BY <1>3, <1>4, <1>5, <2>1
  <2>3. \A k \in 1 .. n : s[k] = r.tasks[p[k]].id
    BY <1>8
  <2>4. ASSUME NEW k \in 1 .. m PROVE o[m][k] = r.tasks[p[k]].id
    <3> HIDE DEF s, x
    <3>1. (\A i \in 1 .. n : Append(s, x)[i] = s[i]) /\ Append(s, x)[m] = x
      BY <2>2, AppendProperties DEF m
    <3>2. CASE k = m
      BY <2>2, <3>1, <3>2 DEF x
    <3>3. CASE k # m
      <4>1. k \in 1 .. n
        BY <2>1, <3>3 DEF m
      <4>2. QED BY <2>2, <2>3, <3>1, <4>1
    <3>4. QED BY <3>2, <3>3
  <2>5. QED BY <2>1, <2>4
<1>9. 0 .. N \subseteq S
  <2> HIDE DEF S, N
  <2>1. QED BY <1>2, <1>7, <1>8, SegmentInduction
<1>10. ASSUME NEW k \in 1 .. N PROVE ToSet(o[k - 1]) = Named(p, r, k - 1)
  <2> DEFINE n == k - 1
  <2>1. n \in 0 .. N /\ Len(o[n]) = n /\ o[n] \in Seq(TasksOf(r))
    <3>1. n \in 0 .. N
      BY <1>2
    <3>2. Len(o[n]) = n
      BY <1>3
    <3> HIDE DEF n
    <3>3. QED BY <3>1, <3>2
  <2>2. \A j \in 1 .. n : o[n][j] = r.tasks[p[j]].id
    BY <1>9, <2>1
  <2> HIDE DEF n
  <2>3. ToSet(o[n]) = {o[n][j] : j \in 1 .. n}
    BY <2>1 DEF ToSet
  <2>4. ToSet(o[n]) = Named(p, r, n)
    BY <2>2, <2>3 DEF Named
  <2>5. QED BY <2>4 DEF n
<1>11. N \in 0 .. N
  BY <1>2
<1>12. Order(r) \in Seq(TasksOf(r)) /\ Len(Order(r)) = N /\ \A k \in 1 .. N : Order(r)[k] = r.tasks[p[k]].id
  BY <1>1, <1>9, <1>11 DEF Acceptable, TasksFit
<1>13. IsQueue(p, r)
  BY <1>4, <1>6, <1>10, <1>12 DEF IsQueue, R
<1>14. QED BY <1>13

\* A queue takes each task once, and after what it depends on.
LEMMA QueueTakesEachOnce ==
  ASSUME NEW r, NEW days \in Nat \ {0}, IsRoute(r), Acceptable(r, days), NEW p, IsQueue(p, r)
  PROVE  /\ \A i, j \in 1 .. Len(r.tasks) : p[i] = p[j] => i = j
         /\ ToSet(Order(r)) = TasksOf(r)
         /\ \A i, j \in 1 .. Len(r.tasks) : Order(r)[j] \in r.tasks[p[i]].dependsOn => j < i
<1> DEFINE N == Len(r.tasks)
           id(i) == r.tasks[i].id
           s == Order(r)
<1>1. /\ N \in Nat /\ p \in [1 .. N -> Places(r)] /\ s \in Seq(TasksOf(r)) /\ Len(s) = N
      /\ \A i, j \in Places(r) : id(i) = id(j) => i = j
      /\ \A k \in 1 .. N : s[k] = id(p[k]) /\ s[k] \in TasksOf(r)
  BY RoutePlaces DEF IsQueue
<1>2. \A k \in 1 .. N : p[k] \in Ready(r, Named(p, r, k - 1))
  BY DEF IsQueue
<1>3. ASSUME NEW i \in 1 .. N, NEW j \in 1 .. N, j < i PROVE p[i] # p[j]
  <2>1. id(p[i]) \notin Named(p, r, i - 1)
    BY <1>2 DEF Ready
  <2>2. j \in 1 .. i - 1
    BY <1>1, <1>3
  <2>3. QED BY <2>1, <2>2 DEF Named
<1>4. \A i, j \in 1 .. N : p[i] = p[j] => i = j
  <2>1. \A i, j \in 1 .. N : i < j \/ j < i \/ i = j
    BY <1>1
  <2>2. QED BY <1>3, <2>1
<1>5. ToSet(s) = TasksOf(r)
  <2> DEFINE I == 1 .. N
  <2>1. ToSet(s) = {s[i] : i \in I}
    BY <1>1 DEF ToSet
  <2>2. \A i, j \in I : s[i] = s[j] => i = j
    BY <1>1, <1>4
  <2>3. IsFiniteSet(I) /\ Cardinality(I) = N
    <3>1. N - 1 + 1 = N /\ 1 \in Int /\ N \in Int /\ (1 > N <=> N = 0)
      BY <1>1
    <3> HIDE DEF N
    <3>2. QED BY <3>1, FS_Interval
  <2>4. ToSet(s) \subseteq TasksOf(r)
    BY <1>1, <2>1
  <2> HIDE DEF I, s, N, id
  <2>5. Cardinality(ToSet(s)) = N
    BY <2>1, <2>2, <2>3, ImageSize
  <2>6. IsFiniteSet(TasksOf(r)) /\ Cardinality(TasksOf(r)) = N
    BY RoutePlaces DEF N
  <2>7. QED BY <2>4, <2>5, <2>6, FS_Subset
<1>6. ASSUME NEW i \in 1 .. N, NEW j \in 1 .. N, s[j] \in r.tasks[p[i]].dependsOn PROVE j < i
  <2>1. s[j] \in Named(p, r, i - 1)
    BY <1>2, <1>6 DEF Ready
  <2>2. PICK k \in 1 .. i - 1 : id(p[j]) = id(p[k])
    BY <1>1, <2>1 DEF Named
  <2>3. k \in 1 .. N /\ k < i
    BY <1>1, <2>2
  <2>4. p[j] \in Places(r) /\ p[k] \in Places(r)
    BY <1>1, <2>3
  <2>5. p[j] = p[k]
    BY <1>1, <2>2, <2>4
  <2>6. j = k
    BY <1>4, <2>3, <2>5
  <2>7. QED BY <2>3, <2>6
<1>7. QED BY <1>4, <1>5, <1>6

\* And week by week: a task of an earlier week that is taken too late would
\* have been next before, or depend on another such task.
LEMMA QueueGoesWeekByWeek ==
  ASSUME NEW r, NEW days \in Nat \ {0}, IsRoute(r), Acceptable(r, days), NEW p, IsQueue(p, r)
  PROVE  \A i, j \in 1 .. Len(r.tasks) : j < i => r.tasks[p[j]].week <= r.tasks[p[i]].week
<1> DEFINE N == Len(r.tasks)
           week(k) == r.tasks[p[k]].week
<1>1. /\ N \in Nat /\ p \in [1 .. N -> Places(r)]
      /\ \A k \in 1 .. N : week(k) \in Nat /\ p[k] \in Places(r)
  <2>1. N \in Nat /\ p \in [1 .. N -> Places(r)]
    BY RoutePlaces DEF IsQueue
  <2>2. ASSUME NEW k \in 1 .. N PROVE week(k) \in Nat
    <3>1. p[k] \in Places(r)
      BY <2>1
    <3>2. r.tasks[p[k]].week \in 1 .. WeekCount(days)
      BY <3>1, RouteTasks, SMTT(15)
    <3>3. QED BY <3>2, WeekBounds
  <2>3. QED BY <2>1, <2>2
<1>2. SUFFICES ASSUME NEW j \in 1 .. N, NEW i \in 1 .. N, j < i, week(i) < week(j) PROVE FALSE
  BY <1>1
<1> DEFINE Late == {k \in 1 .. N : j < k /\ week(k) < week(j)}
<1>3. Late \subseteq Nat /\ Late # {}
  BY <1>1, <1>2
<1>4. PICK k \in Late : \A l \in Late : k <= l
  <2> HIDE DEF Late
  <2>1. QED BY <1>3, LeastNumber
<1>5. k \in 1 .. N /\ j < k /\ week(k) < week(j) /\ p[k] \in Places(r)
  BY <1>1, <1>4
<1>6. ASSUME NEW d \in r.tasks[p[k]].dependsOn PROVE d \in Named(p, r, j - 1)
  <2>1. PICK q \in Places(r) : d = r.tasks[q].id /\ r.tasks[q].week <= week(k)
    BY <1>5, RouteTasks
  <2>2. d \in Named(p, r, k - 1)
    BY <1>5, <1>6 DEF IsQueue, Ready
  <2>3. PICK l \in 1 .. k - 1 : d = r.tasks[p[l]].id
    BY <2>2 DEF Named
  <2>4. l \in 1 .. N /\ l < k /\ p[l] \in Places(r)
    BY <1>1, <1>5, <2>3
  <2>5. p[l] = q
    <3>1. \A x, y \in Places(r) : r.tasks[x].id = r.tasks[y].id => x = y
      BY RoutePlaces
    <3>2. QED BY <2>1, <2>3, <2>4, <3>1
  <2>6. week(l) < week(j)
    <3>1. week(l) <= week(k) /\ week(l) \in Nat /\ week(k) \in Nat /\ week(j) \in Nat
      BY <1>1, <1>5, <2>1, <2>4, <2>5
    <3>2. week(k) < week(j)
      BY <1>5
    <3> HIDE DEF week
    <3>3. QED BY <3>1, <3>2
  <2>7. l < j
    <3>1. l \notin Late
      BY <1>1, <1>4, <1>5, <2>4
    <3>2. ~ j < l /\ l # j
      BY <1>1, <2>4, <2>6, <3>1
    <3>3. QED BY <1>1, <2>4, <3>2
  <2>8. l \in 1 .. j - 1
    BY <1>1, <2>4, <2>7
  <2>9. QED BY <2>3, <2>8 DEF Named
<1>7. r.tasks[p[k]].id \notin Named(p, r, j - 1)
  <2>1. r.tasks[p[k]].id \notin Named(p, r, k - 1)
    BY <1>5 DEF IsQueue, Ready
  <2>2. 1 .. j - 1 \subseteq 1 .. k - 1
    BY <1>1, <1>5
  <2>3. QED BY <2>1, <2>2 DEF Named
<1>8. p[k] \in Ready(r, Named(p, r, j - 1))
  BY <1>5, <1>6, <1>7 DEF Ready
<1>9. week(j) <= week(k)
  BY <1>8 DEF IsQueue
<1>10. QED BY <1>1, <1>5, <1>9

-----------------------------------------------------------------------------
(* The plan of a route.                                                    *)

StoneNode(r, days, m) ==
  [type |-> "milestone", status |-> "todo", milestone |-> m, hours |-> 0,
   start |-> WeekStart(r.milestones[m].start), end |-> WeekEnd(days, r.milestones[m].end),
   manual |-> {}]

TaskNode(r, days, i) ==
  [type |-> "task", status |-> "todo", milestone |-> r.tasks[i].milestone,
   hours |-> r.tasks[i].hours, start |-> WeekStart(r.tasks[i].week),
   end |-> WeekEnd(days, r.tasks[i].week), manual |-> {}]

LEMMA RouteNodes ==
  ASSUME NEW r, NEW days \in Nat \ {0}, IsRoute(r), Acceptable(r, days)
  PROVE  LET ns == NodesOf(r, days)
         IN  /\ ns = [n \in DOMAIN r.milestones \cup TasksOf(r) |-> ns[n]]
             /\ \A m \in DOMAIN r.milestones : ns[m] = StoneNode(r, days, m)
             /\ \A i \in Places(r) : ns[r.tasks[i].id] = TaskNode(r, days, i)
             /\ \A n \in DOMAIN ns : ns[n].type = "task" <=> n \in TasksOf(r)
             /\ Scheduled(ns) = TasksOf(r)
<1> DEFINE ns == NodesOf(r, days)
<1>1. ns = [n \in DOMAIN r.milestones \cup TasksOf(r) |-> ns[n]]
  BY DEF NodesOf
<1>2. ASSUME NEW m \in DOMAIN r.milestones PROVE ns[m] = StoneNode(r, days, m)
  BY DEF NodesOf, StoneNode
<1>3. ASSUME NEW i \in Places(r) PROVE ns[r.tasks[i].id] = TaskNode(r, days, i)
  <2> DEFINE t == r.tasks[i].id
  <2>1. t \in TasksOf(r) /\ t \notin DOMAIN r.milestones /\ TaskNamed(r, t) = r.tasks[i]
    BY RoutePlaces
  <2> HIDE DEF t
  <2>2. ns[t] = TaskNode(r, days, i)
    BY <2>1 DEF NodesOf, TaskNode
  <2>3. QED BY <2>2 DEF t
<1> HIDE DEF ns
<1>4. ASSUME NEW n \in DOMAIN ns PROVE ns[n].type = "task" <=> n \in TasksOf(r)
  <2>1. CASE n \in DOMAIN r.milestones
    <3>1. StoneNode(r, days, n).type # "task" /\ n \notin TasksOf(r)
      BY <2>1, RoutePlaces DEF StoneNode
    <3>2. ns[n] = StoneNode(r, days, n)
      BY <1>2, <2>1
    <3>3. QED BY <3>1, <3>2
  <2>2. CASE n \in TasksOf(r)
    <3>1. PICK i \in Places(r) : n = r.tasks[i].id
      BY <2>2, RoutePlaces
    <3>2. ns[n] = TaskNode(r, days, i)
      BY <1>3, <3>1
    <3>3. TaskNode(r, days, i).type = "task"
      BY DEF TaskNode
    <3>4. QED BY <2>2, <3>2, <3>3
  <2>3. QED BY <1>1, <2>1, <2>2
<1>5. Scheduled(ns) = TasksOf(r)
  BY <1>1, <1>4 DEF Scheduled
<1>6. QED BY <1>1, <1>2, <1>3, <1>4, <1>5 DEF ns

\* The hours of a week are the same over the places and over the nodes.
LEMMA RouteHours ==
  ASSUME NEW r, NEW days \in Nat \ {0}, IsRoute(r), Acceptable(r, days), NEW w \in 1 .. WeekCount(days)
  PROVE  LET ns == NodesOf(r, days)
         IN  /\ Total([t \in TasksOf(r) |-> ns[t].hours], {t \in TasksOf(r) : ns[t].start = WeekStart(w)})
                  = Planned(r, w)
             /\ Planned(r, w) \in Int
<1> DEFINE ns == NodesOf(r, days)
           f == [i \in Places(r) |-> r.tasks[i].hours]
           e == [t \in TasksOf(r) |-> ns[t].hours]
           b == [i \in Places(r) |-> r.tasks[i].id]
           D == InWeek(r, w)
           T == {t \in TasksOf(r) : ns[t].start = WeekStart(w)}
<1>1. ASSUME NEW i \in Places(r)
      PROVE  /\ b[i] \in TasksOf(r) /\ ns[b[i]].hours = f[i]
             /\ ns[b[i]].start = WeekStart(w) <=> i \in D
  <2>1. /\ b[i] \in TasksOf(r) /\ ns[b[i]].hours = f[i]
        /\ ns[b[i]].start = WeekStart(r.tasks[i].week) /\ r.tasks[i].week \in 1 .. WeekCount(days)
    <3>1. b[i] \in TasksOf(r) /\ ns[b[i]] = TaskNode(r, days, i)
      <4>1. b[i] = r.tasks[i].id
        OBVIOUS
      <4>2. r.tasks[i].id \in TasksOf(r) /\ ns[r.tasks[i].id] = TaskNode(r, days, i)
        <5> HIDE DEF f, e, b, D, T
        <5>1. r.tasks[i].id \in TasksOf(r)
          BY RoutePlaces
        <5>2. ns[r.tasks[i].id] = TaskNode(r, days, i)
          BY RouteNodes
        <5> HIDE DEF ns
        <5>3. QED BY <5>1, <5>2
      <4> HIDE DEF b
      <4>3. QED BY <4>1, <4>2
    <3>2. /\ TaskNode(r, days, i).hours = r.tasks[i].hours
          /\ TaskNode(r, days, i).start = WeekStart(r.tasks[i].week)
      BY DEF TaskNode
    <3>3. r.tasks[i].week \in 1 .. WeekCount(days)
      BY RouteTasks
    <3> HIDE DEF ns, b
    <3>4. QED BY <3>1, <3>2, <3>3
  <2>2. WeekStart(r.tasks[i].week) = WeekStart(w) <=> r.tasks[i].week = w
    BY <2>1, WeekOrder
  <2>3. i \in D <=> r.tasks[i].week = w
    BY DEF InWeek
  <2>4. QED BY <2>1, <2>2, <2>3
<1>2. /\ \A i \in Places(r) : f[i] \in Int
      /\ \A i, j \in Places(r) : b[i] = b[j] => i = j
      /\ \A t \in TasksOf(r) : \E i \in Places(r) : t = b[i]
      /\ IsFiniteSet(Places(r))
  BY RoutePlaces, RouteTasks
<1>3. D \subseteq Places(r)
  BY DEF InWeek
<1>4. IsFiniteSet(D) /\ \A i \in D : f[i] \in Int
  BY <1>2, <1>3, FS_Subset
<1>5. \A i \in Places(r) : e[b[i]] = f[i]
  BY <1>1
<1>6. T = {b[i] : i \in D}
  <2> HIDE DEF b, D, f, ns
  <2>1. QED BY <1>1, <1>2, <1>3
<1>7. Renames(b, f, e, D)
  <2> HIDE DEF b, D, f, e
  <2>1. QED BY <1>2, <1>3, <1>5 DEF Renames
<1>8. Planned(r, w) = Total(f, D)
  BY DEF Planned
<1>9. Total(f, D) = Total(e, T) /\ Total(f, D) \in Int
  <2> HIDE DEF b, D, f, e, T, ns
  <2>1. QED BY <1>4, <1>6, <1>7, TotalImage, TotalStep
<1>10. QED BY <1>8, <1>9

\* What is planned for a week fits its days.
LEMMA RouteWeek ==
  ASSUME NEW r, NEW days \in Nat \ {0}, IsRoute(r), Acceptable(r, days), NEW w \in 1 .. WeekCount(days)
  PROVE  LET h == Planned(r, w)
             k == DaysOf(days, w)
         IN  /\ h * WeekDays <= WeeklyHours * k + Tolerance * k
             /\ h * WeekDays > WeeklyHours * k => w \in Overruns(r, days)
<1> DEFINE h == Planned(r, w)
           k == DaysOf(days, w)
           a == WeeklyHours * k
           b == Tolerance * k
           c == a \div WeekDays
           d == b \div WeekDays
<1>1. WeekDays \in Nat \ {0} /\ h \in Int /\ k \in Nat
  <2>1. WeekDays \in Nat \ {0} /\ k \in 1 .. WeekDays
    BY RouteBounds, WeekBounds
  <2>2. h \in Int
    BY RouteHours
  <2> HIDE DEF h, k
  <2>3. QED BY <2>1, <2>2
<1>2. a \in Nat /\ b \in Nat
  BY <1>1, RouteBounds
<1>3. h <= c + d /\ (h > c => w \in Overruns(r, days))
  BY DEF Acceptable, TasksFit, WithinWeek, Capacity, Elastic, Overruns
<1> HIDE DEF h, k, a, b
<1>4. c \in Int /\ d \in Int /\ WeekDays * c <= a /\ WeekDays * d <= b
  BY <1>1, <1>2, Quotient
<1> HIDE DEF c, d
<1>5. h * WeekDays <= (c + d) * WeekDays
  BY <1>1, <1>3, <1>4
<1>6. (c + d) * WeekDays = WeekDays * c + WeekDays * d
  BY <1>1, <1>4
<1>7. h * WeekDays <= a + b
  BY <1>1, <1>2, <1>4, <1>5, <1>6
<1>8. ASSUME h * WeekDays > a PROVE h > c
  <2>1. WeekDays * h > WeekDays * c
    BY <1>1, <1>2, <1>4, <1>8
  <2>2. \A x, y \in Int : WeekDays * x > WeekDays * y => x > y
    BY <1>1
  <2>3. QED BY <1>1, <1>4, <2>1, <2>2
<1>9. QED BY <1>3, <1>7, <1>8 DEF a, b, h, k

\* The spans of the nodes lie within the days, those of tasks within their
\* milestone's.
LEMMA RouteSpans ==
  ASSUME NEW r, NEW days \in Nat \ {0}, IsRoute(r), Acceptable(r, days)
  PROVE  LET ns == NodesOf(r, days)
         IN  /\ \A n \in DOMAIN ns : IsSpan(ns[n]) /\ ns[n].end < days /\ ns[n].milestone \in DOMAIN r.milestones
             /\ \A n \in TasksOf(r) : /\ ns[n].start >= ns[ns[n].milestone].start
                                      /\ ns[n].end <= ns[ns[n].milestone].end
<1> DEFINE ns == NodesOf(r, days)
<1>1. /\ ns = [n \in DOMAIN r.milestones \cup TasksOf(r) |-> ns[n]]
      /\ \A m \in DOMAIN r.milestones : ns[m] = StoneNode(r, days, m)
      /\ \A i \in Places(r) : ns[r.tasks[i].id] = TaskNode(r, days, i)
  BY RouteNodes
<1>2. ASSUME NEW m \in DOMAIN r.milestones
      PROVE  /\ IsSpan(ns[m]) /\ ns[m].end < days /\ ns[m].milestone = m
             /\ ns[m].start = WeekStart(r.milestones[m].start)
             /\ ns[m].end = WeekEnd(days, r.milestones[m].end)
  <2> DEFINE a == r.milestones[m].start
             b == r.milestones[m].end
  <2>1. a \in 1 .. WeekCount(days) /\ b \in 1 .. WeekCount(days) /\ a <= b
    <3>1. a \in Nat \ {0} /\ b \in Nat \ {0} /\ a <= b /\ b <= WeekCount(days)
      BY DEF Acceptable, MilestonesFit, IsRoute
    <3>2. QED BY <3>1, WeekBounds
  <2>2. /\ StoneNode(r, days, m).start = WeekStart(a) /\ StoneNode(r, days, m).end = WeekEnd(days, b)
        /\ StoneNode(r, days, m).milestone = m
    BY DEF StoneNode
  <2>3. ns[m] = StoneNode(r, days, m)
    BY <1>1
  <2> HIDE DEF a, b, ns
  <2>4. /\ WeekStart(a) \in Nat /\ WeekEnd(days, b) \in Nat /\ WeekStart(b) \in Nat
        /\ WeekStart(a) <= WeekStart(b) /\ WeekStart(b) <= WeekEnd(days, b)
        /\ WeekEnd(days, b) < days
    BY <2>1, WeekBounds, WeekOrder
  <2>5. WeekStart(a) <= WeekEnd(days, b)
    BY <2>4
  <2>6. QED BY <2>2, <2>3, <2>4, <2>5 DEF IsSpan, a, b
<1>3. ASSUME NEW i \in Places(r)
      PROVE  LET n == ns[r.tasks[i].id]
             IN  /\ IsSpan(n) /\ n.end < days /\ n.milestone \in DOMAIN r.milestones
                 /\ n.start >= ns[n.milestone].start /\ n.end <= ns[n.milestone].end
  <2> DEFINE n == ns[r.tasks[i].id]
             w == r.tasks[i].week
             m == r.tasks[i].milestone
             a == r.milestones[m].start
             b == r.milestones[m].end
  <2>1. /\ a \in 1 .. WeekCount(days) /\ b \in 1 .. WeekCount(days) /\ w \in 1 .. WeekCount(days)
        /\ a <= w /\ w <= b /\ m \in DOMAIN r.milestones
    BY RouteTasks
  <2>2. n.start = WeekStart(w) /\ n.end = WeekEnd(days, w) /\ n.milestone = m
    <3>1. n = TaskNode(r, days, i)
      BY <1>1
    <3> HIDE DEF n
    <3>2. QED BY <3>1 DEF TaskNode
  <2>3. ns[m].start = WeekStart(a) /\ ns[m].end = WeekEnd(days, b)
    BY <1>2, <2>1
  <2> HIDE DEF a, b, w, m, n, ns
  <2>4. /\ WeekStart(w) \in Nat /\ WeekEnd(days, w) \in Nat /\ WeekStart(w) <= WeekEnd(days, w)
        /\ WeekEnd(days, w) < days /\ WeekStart(a) \in Nat /\ WeekEnd(days, b) \in Nat
        /\ WeekStart(a) <= WeekStart(w) /\ WeekEnd(days, w) <= WeekEnd(days, b)
    BY <2>1, WeekBounds, WeekOrder
  <2>5. n.start >= ns[n.milestone].start /\ n.end <= ns[n.milestone].end
    BY <2>2, <2>3, <2>4
  <2>6. IsSpan(n) /\ n.end < days /\ n.milestone \in DOMAIN r.milestones
    BY <2>1, <2>2, <2>4 DEF IsSpan
  <2>7. QED BY <2>5, <2>6 DEF n
<1>4. \A t \in TasksOf(r) : \E i \in Places(r) : t = r.tasks[i].id
  BY RoutePlaces
<1> HIDE DEF ns
<1>5. ASSUME NEW t \in TasksOf(r)
      PROVE  /\ IsSpan(ns[t]) /\ ns[t].end < days /\ ns[t].milestone \in DOMAIN r.milestones
             /\ ns[t].start >= ns[ns[t].milestone].start /\ ns[t].end <= ns[ns[t].milestone].end
  BY <1>3, <1>4
<1>6. DOMAIN ns = DOMAIN r.milestones \cup TasksOf(r)
  BY <1>1
<1>7. \A n \in DOMAIN ns : IsSpan(ns[n]) /\ ns[n].end < days /\ ns[n].milestone \in DOMAIN r.milestones
  BY <1>2, <1>5, <1>6
<1>8. QED BY <1>5, <1>7 DEF ns

LEMMA RouteOrder ==
  ASSUME NEW r, NEW days \in Nat \ {0}, IsRoute(r), Acceptable(r, days)
  PROVE  LET ns == NodesOf(r, days)
             tasks == Order(r)
         IN  /\ ToSet(tasks) = TasksOf(r) /\ Len(tasks) = Cardinality(TasksOf(r))
             /\ \A i \in DOMAIN tasks, j \in DOMAIN tasks :
                  /\ <<tasks[i], tasks[j]>> \in DepsOf(r) => j < i
                  /\ j < i => ns[tasks[j]].start <= ns[tasks[i]].start
<1> DEFINE ns == NodesOf(r, days)
           tasks == Order(r)
           N == Len(r.tasks)
<1>1. PICK p : IsQueue(p, r)
  BY OrderIsQueue
<1>2. /\ tasks \in Seq(TasksOf(r)) /\ Len(tasks) = N /\ p \in [1 .. N -> Places(r)]
      /\ \A k \in 1 .. N : tasks[k] = r.tasks[p[k]].id
  BY <1>1 DEF IsQueue
<1>3. /\ \A i, j \in 1 .. N : p[i] = p[j] => i = j
      /\ ToSet(tasks) = TasksOf(r)
      /\ \A i, j \in 1 .. N : tasks[j] \in r.tasks[p[i]].dependsOn => j < i
  BY <1>1, QueueTakesEachOnce
<1>4. \A i, j \in 1 .. N : j < i => r.tasks[p[j]].week <= r.tasks[p[i]].week
  BY <1>1, QueueGoesWeekByWeek
<1>5. DOMAIN tasks = 1 .. N /\ N = Cardinality(TasksOf(r)) /\ N \in Nat
  BY <1>2, RoutePlaces
<1>6. ASSUME NEW k \in 1 .. N
      PROVE  /\ p[k] \in Places(r) /\ r.tasks[p[k]].week \in 1 .. WeekCount(days)
             /\ ns[tasks[k]].start = WeekStart(r.tasks[p[k]].week)
  <2>1. p[k] \in Places(r) /\ tasks[k] = r.tasks[p[k]].id
    BY <1>2
  <2>2. ns[r.tasks[p[k]].id] = TaskNode(r, days, p[k])
    BY <2>1, RouteNodes
  <2>3. TaskNode(r, days, p[k]).start = WeekStart(r.tasks[p[k]].week)
    BY DEF TaskNode
  <2>4. r.tasks[p[k]].week \in 1 .. WeekCount(days)
    BY <2>1, RouteTasks
  <2> HIDE DEF ns, tasks
  <2>5. QED BY <2>1, <2>2, <2>3, <2>4
<1> HIDE DEF ns, tasks, N
<1>7. ASSUME NEW i \in 1 .. N, NEW j \in 1 .. N, <<tasks[i], tasks[j]>> \in DepsOf(r) PROVE j < i
  <2>1. PICK q \in Places(r) : \E d \in r.tasks[q].dependsOn : <<tasks[i], tasks[j]>> = <<r.tasks[q].id, d>>
    BY <1>7 DEF DepsOf
  <2>2. tasks[i] = r.tasks[q].id /\ tasks[j] \in r.tasks[q].dependsOn
    BY <2>1
  <2>3. p[i] \in Places(r) /\ r.tasks[p[i]].id = r.tasks[q].id
    BY <1>2, <1>6, <2>2
  <2>4. \A k, l \in Places(r) : r.tasks[k].id = r.tasks[l].id => k = l
    BY RoutePlaces
  <2>5. q = p[i]
    BY <2>1, <2>3, <2>4
  <2>6. QED BY <1>3, <2>2, <2>5
<1>8. ASSUME NEW i \in 1 .. N, NEW j \in 1 .. N, j < i PROVE ns[tasks[j]].start <= ns[tasks[i]].start
  <2>1. r.tasks[p[j]].week <= r.tasks[p[i]].week
    BY <1>4, <1>8
  <2>2. WeekStart(r.tasks[p[j]].week) <= WeekStart(r.tasks[p[i]].week)
    BY <1>6, <2>1, WeekOrder
  <2>3. QED BY <1>6, <2>2
<1>9. ToSet(tasks) = TasksOf(r) /\ Len(tasks) = Cardinality(TasksOf(r))
  BY <1>2, <1>3, <1>5
<1>10. QED BY <1>5, <1>7, <1>8, <1>9 DEF ns, tasks

LEMMA RouteSound ==
  ASSUME IsRoute(draft.route), draft.days \in Nat \ {0}
  PROVE  RouteIsSound
<1> DEFINE r == draft.route
           days == draft.days
           ns == NodesOf(r, days)
           tasks == Order(r)
           hours(w) == Total([t \in TasksOf(r) |-> ns[t].hours],
                             {t \in TasksOf(r) : ns[t].start = WeekStart(w)})
           share(w, h) == h * Cardinality({d \in 0 .. days - 1 : d \div WeekDays = w - 1})
<1>1. SUFFICES ASSUME Acceptable(r, days)
               PROVE  /\ ToSet(tasks) = TasksOf(r) /\ Len(tasks) = Cardinality(TasksOf(r))
                      /\ \A i \in DOMAIN tasks, j \in DOMAIN tasks :
                           /\ <<tasks[i], tasks[j]>> \in DepsOf(r) => j < i
                           /\ j < i => ns[tasks[j]].start <= ns[tasks[i]].start
                      /\ \A w \in 1 .. WeekCount(days) :
                           /\ hours(w) * WeekDays <= share(w, WeeklyHours) + share(w, Tolerance)
                           /\ hours(w) * WeekDays > share(w, WeeklyHours) => w \in Overruns(r, days)
                      /\ \A n \in Scheduled(ns) : /\ ns[n].start >= ns[ns[n].milestone].start
                                                  /\ ns[n].end <= ns[ns[n].milestone].end
                                                  /\ ns[n].end < days
  BY DEF RouteIsSound
<1> HIDE DEF r, days
<1>2. IsRoute(r) /\ days \in Nat \ {0}
  BY DEF r, days
<1>3. /\ ToSet(tasks) = TasksOf(r) /\ Len(tasks) = Cardinality(TasksOf(r))
      /\ \A i \in DOMAIN tasks, j \in DOMAIN tasks :
           /\ <<tasks[i], tasks[j]>> \in DepsOf(r) => j < i
           /\ j < i => ns[tasks[j]].start <= ns[tasks[i]].start
  BY <1>1, <1>2, RouteOrder
<1>4. ASSUME NEW w \in 1 .. WeekCount(days)
      PROVE  /\ hours(w) * WeekDays <= share(w, WeeklyHours) + share(w, Tolerance)
             /\ hours(w) * WeekDays > share(w, WeeklyHours) => w \in Overruns(r, days)
  <2>1. hours(w) = Planned(r, w)
    BY <1>1, <1>2, RouteHours
  <2>2. \A h : share(w, h) = h * DaysOf(days, w)
    BY <1>2, DaysOfWeek
  <2> HIDE DEF hours, share
  <2>3. QED BY <1>1, <1>2, <2>1, <2>2, RouteWeek
<1>5. \A n \in Scheduled(ns) : /\ ns[n].start >= ns[ns[n].milestone].start
                               /\ ns[n].end <= ns[ns[n].milestone].end
                               /\ ns[n].end < days
  <2>1. /\ \A n \in DOMAIN ns : ns[n].end < days
        /\ \A n \in TasksOf(r) : /\ ns[n].start >= ns[ns[n].milestone].start
                                 /\ ns[n].end <= ns[ns[n].milestone].end
    BY <1>1, <1>2, RouteSpans
  <2>2. Scheduled(ns) = TasksOf(r)
    BY <1>1, <1>2, RouteNodes
  <2>3. Scheduled(ns) \subseteq DOMAIN ns
    BY DEF Scheduled
  <2> HIDE DEF ns
  <2>4. QED BY <2>1, <2>2, <2>3
<1> HIDE DEF hours, share, ns, tasks
<1>6. QED BY <1>3, <1>4, <1>5

-----------------------------------------------------------------------------
(* The plan that is edited and replanned.                                  *)

\* Finitely many days have a first and a last.
LEMMA LeastExists ==
  ASSUME NEW S, IsFiniteSet(S), S \subseteq Int, S # {}
  PROVE  /\ Least(S) \in S /\ \A n \in S : Least(S) <= n
         /\ Greatest(S) \in S /\ \A n \in S : n <= Greatest(S)
<1> DEFINE Low(T)  == T = {} \/ \E m \in T : \A n \in T : m <= n
           High(T) == T = {} \/ \E m \in T : \A n \in T : n <= m
           W == {T \in SUBSET S : Low(T) /\ High(T)}
<1>1. {} \in W
  OBVIOUS
<1>2. ASSUME NEW T \in SUBSET S, NEW x \in S \ T, T \in W PROVE T \cup {x} \in W
  <2>1. x \in Int /\ T \subseteq Int
    OBVIOUS
  <2>2. CASE T = {}
    BY <2>1, <2>2
  <2>3. CASE T # {}
    <3>1. PICK a \in T : \A n \in T : a <= n
      BY <1>2, <2>3
    <3>2. PICK b \in T : \A n \in T : n <= b
      BY <1>2, <2>3
    <3>3. Low(T \cup {x})
      <4>1. CASE a <= x
        BY <3>1, <4>1
      <4>2. CASE ~ a <= x
        <5>1. \A n \in T \cup {x} : x <= n
          BY <2>1, <3>1, <4>2
        <5>2. QED BY <5>1
      <4>3. QED BY <4>1, <4>2
    <3>4. High(T \cup {x})
      <4>1. CASE x <= b
        BY <3>2, <4>1
      <4>2. CASE ~ x <= b
        <5>1. \A n \in T \cup {x} : n <= x
          BY <2>1, <3>2, <4>2
        <5>2. QED BY <5>1
      <4>3. QED BY <4>1, <4>2
    <3>5. QED BY <3>3, <3>4
  <2>4. QED BY <2>2, <2>3
<1>3. S \in W
  <2> HIDE DEF W
  <2>1. QED BY <1>1, <1>2, FiniteInduction
<1>4. PICK m \in S : \A n \in S : m <= n
  BY <1>3
<1>5. PICK k \in S : \A n \in S : n <= k
  BY <1>3
<1>6. Least(S) = m /\ Greatest(S) = k
  BY <1>4, <1>5, LeastIs, GreatestIs
<1>7. QED BY <1>4, <1>5, <1>6

\* The nodes are the milestones and the tasks of the route.
LEMMA PlanNodes ==
  ASSUME TypeOK, version > 1
  PROVE  LET r == draft.route
         IN  /\ nodes \in [DOMAIN r.milestones \cup TasksOf(r) -> Node(r)]
             /\ Scheduled(nodes) = TasksOf(r) /\ IsFiniteSet(TasksOf(r))
             /\ DOMAIN r.milestones \cap TasksOf(r) = {}
             /\ \A n \in DOMAIN nodes : IsSpan(nodes[n]) /\ nodes[n].milestone \in DOMAIN r.milestones
<1> DEFINE r == draft.route
<1>1. /\ IsRoute(r) /\ draft.days \in Nat \ {0} /\ Acceptable(r, draft.days)
      /\ nodes \in [DOMAIN r.milestones \cup TasksOf(r) -> Node(r)]
      /\ \A n \in DOMAIN nodes : IsSpan(nodes[n]) /\ (nodes[n].type = "task" <=> n \in TasksOf(r))
  BY DEF TypeOK
<1>2. IsFiniteSet(TasksOf(r)) /\ DOMAIN r.milestones \cap TasksOf(r) = {}
  BY <1>1, RoutePlaces
<1> HIDE DEF r
<1>3. Scheduled(nodes) = TasksOf(r)
  BY <1>1 DEF Scheduled
<1>4. \A n \in DOMAIN nodes : nodes[n].milestone \in DOMAIN r.milestones
  BY <1>1 DEF Node
<1>5. QED BY <1>1, <1>2, <1>3, <1>4 DEF r

\* What two nodes have in common when one is a move of the other.
SameButDates(a, b) ==
  /\ a.type = b.type /\ a.status = b.status /\ a.hours = b.hours
  /\ a.milestone = b.milestone /\ a.manual = b.manual

\* A node with other dates.
Redated(n, s, e) == [n EXCEPT !.start = s, !.end = e]

LEMMA OtherDates ==
  ASSUME NEW r, NEW n \in Node(r), NEW s \in Int, NEW e \in Int
  PROVE  /\ Redated(n, s, e) \in Node(r) /\ Redated(n, s, e).start = s /\ Redated(n, s, e).end = e
         /\ SameButDates(Redated(n, s, e), n)
  BY DEF Node, SameButDates, Redated

\* What is replanned: the tasks that are moved, and the milestones of those
\* that are moved to other dates.
LEMMA MovedTasks ==
  ASSUME TypeOK, version > 1, NEW moves \in Moves
  PROVE  LET ns == TasksMoved(moves)
             r  == draft.route
         IN  /\ ns \in [DOMAIN nodes -> Node(r)]
             /\ \A n \in DOMAIN nodes : SameButDates(ns[n], nodes[n])
             /\ \A n \in DOMAIN nodes \ DOMAIN moves : ns[n] = nodes[n]
             /\ DOMAIN moves \subseteq Open(nodes)
             /\ \A n \in DOMAIN moves : /\ ns[n].start = moves[n].start /\ ns[n].end = moves[n].end
                                        /\ ns[n].start \in Int /\ ns[n].end \in Int
<1> DEFINE ns == TasksMoved(moves)
           r == draft.route
<1>1. PICK S \in SUBSET Open(nodes) : moves \in [S -> Spans]
  BY DEF Moves
<1>2. DOMAIN moves = S /\ S \subseteq Open(nodes) /\ \A n \in S : moves[n] \in Spans
  BY <1>1
<1>3. \A n \in S : moves[n].start \in Int /\ moves[n].end \in Int
  BY <1>2, ScheduleBounds
<1>4. Open(nodes) \subseteq DOMAIN nodes
  BY DEF Open, Scheduled
<1>5. \A n \in DOMAIN nodes : nodes[n] \in Node(r)
  BY PlanNodes
<1>6. ASSUME NEW n \in S
      PROVE  /\ ns[n] \in Node(r) /\ SameButDates(ns[n], nodes[n])
             /\ ns[n].start = moves[n].start /\ ns[n].end = moves[n].end
  <2> DEFINE s == moves[n].start
             e == moves[n].end
             a == nodes[n]
  <2>1. ns[n] = Redated(a, s, e)
    BY <1>2, <1>4 DEF TasksMoved, Redated
  <2>2. s \in Int /\ e \in Int /\ a \in Node(r)
    BY <1>2, <1>3, <1>4, <1>5
  <2> HIDE DEF s, e, a, ns
  <2>3. ns[n] \in Node(r) /\ ns[n].start = s /\ ns[n].end = e /\ SameButDates(ns[n], a)
    BY <2>1, <2>2, OtherDates
  <2>4. QED BY <2>3 DEF s, e, a
<1>7. ASSUME NEW n \in DOMAIN nodes \ S PROVE ns[n] = nodes[n]
  BY <1>2 DEF TasksMoved
<1>8. ns = [n \in DOMAIN nodes |-> ns[n]]
  BY DEF TasksMoved
<1> HIDE DEF ns, r
<1>9. \A n \in DOMAIN nodes : ns[n] \in Node(r) /\ SameButDates(ns[n], nodes[n])
  BY <1>5, <1>6, <1>7 DEF SameButDates
<1>10. ns \in [DOMAIN nodes -> Node(r)]
  BY <1>8, <1>9
<1>11. QED BY <1>2, <1>3, <1>6, <1>7, <1>9, <1>10 DEF ns, r

\* Where the tasks of a milestone lie.
HullIs(ns, m, C) ==
  /\ Hull(ns, m).start \in {ns[n].start : n \in C} /\ \A n \in C : Hull(ns, m).start <= ns[n].start
  /\ Hull(ns, m).end \in {ns[n].end : n \in C} /\ \A n \in C : ns[n].end <= Hull(ns, m).end

LEMMA MovedStones ==
  ASSUME TypeOK, version > 1, NEW moves \in Moves, NEW m \in ChangedParents(moves)
  PROVE  LET ns == TasksMoved(moves)
             C  == Children(nodes, m)
         IN  /\ m \in DOMAIN draft.route.milestones
             /\ Children(ns, m) = C /\ C # {} /\ C \subseteq Scheduled(nodes)
             /\ \E n \in C : n \in DOMAIN moves /\ Moved(n, moves[n])
             /\ HullIs(ns, m, C)
<1> DEFINE ns == TasksMoved(moves)
           r == draft.route
           C == Children(nodes, m)
<1>1. /\ ns \in [DOMAIN nodes -> Node(r)]
      /\ \A n \in DOMAIN nodes : SameButDates(ns[n], nodes[n])
      /\ DOMAIN moves \subseteq Open(nodes)
  BY MovedTasks
<1>2. Scheduled(ns) = Scheduled(nodes)
  <2> HIDE DEF ns
  <2>1. QED BY <1>1 DEF Scheduled, SameButDates
<1>3. Children(ns, m) = C
  <2> HIDE DEF ns
  <2>1. QED BY <1>1, <1>2 DEF Children, Scheduled, SameButDates
<1>4. PICK c \in DOMAIN moves : Moved(c, moves[c]) /\ m = nodes[c].milestone
  BY DEF ChangedParents, Parents
<1>5. c \in Scheduled(nodes) /\ c \in DOMAIN nodes
  BY <1>1 DEF Open, Scheduled
<1>6. c \in C
  BY <1>4, <1>5 DEF Children
<1>7. m \in DOMAIN r.milestones
  BY <1>4, <1>5, PlanNodes
<1>8. C \subseteq Scheduled(nodes) /\ C \subseteq DOMAIN nodes
  BY DEF Children, Scheduled
<1>9. IsFiniteSet(C)
  BY <1>8, PlanNodes, FS_Subset
<1> DEFINE start == [n \in C |-> ns[n].start]
           end == [n \in C |-> ns[n].end]
           A == {start[n] : n \in C}
           B == {end[n] : n \in C}
<1>10. \A n \in C : start[n] = ns[n].start /\ end[n] = ns[n].end /\ start[n] \in Int /\ end[n] \in Int
  BY <1>1, <1>8 DEF Node
<1>11. A = {ns[n].start : n \in C} /\ B = {ns[n].end : n \in C}
  OBVIOUS
<1>12. Hull(ns, m).start = Least(A) /\ Hull(ns, m).end = Greatest(B)
  BY <1>3 DEF Hull
<1> HIDE DEF ns, C, start, end
<1>13. IsFiniteSet(A) /\ A \subseteq Int /\ A # {} /\ IsFiniteSet(B) /\ B \subseteq Int /\ B # {}
  BY <1>6, <1>9, <1>10, ImageFinite
<1> HIDE DEF A, B
<1>14. /\ Least(A) \in A /\ \A n \in A : Least(A) <= n
       /\ Greatest(B) \in B /\ \A n \in B : n <= Greatest(B)
  BY <1>13, LeastExists
<1>15. \A n \in C : ns[n].start \in A /\ ns[n].end \in B
  BY <1>11
<1>16. HullIs(ns, m, C)
  BY <1>11, <1>12, <1>14, <1>15 DEF HullIs
<1>17. QED BY <1>3, <1>4, <1>6, <1>7, <1>8, <1>16 DEF ns, C

\* The plan after a replan, node by node.
LEMMA ReplannedNodes ==
  ASSUME TypeOK, version > 1, NEW moves \in Moves
  PROVE  LET after == Replanned(moves)
             ns == TasksMoved(moves)
             r  == draft.route
         IN  /\ after \in [DOMAIN nodes -> Node(r)]
             /\ \A n \in DOMAIN nodes : SameButDates(after[n], nodes[n])
             /\ \A n \in DOMAIN nodes \ (DOMAIN moves \cup ChangedParents(moves)) : after[n] = nodes[n]
             /\ \A n \in Scheduled(nodes) : n \notin ChangedParents(moves) /\ after[n] = ns[n]
             /\ \A n \in DOMAIN moves : after[n].start = moves[n].start /\ after[n].end = moves[n].end
             /\ \A m \in ChangedParents(moves) :
                  after[m].start = Hull(ns, m).start /\ after[m].end = Hull(ns, m).end
<1> DEFINE after == Replanned(moves)
           ns == TasksMoved(moves)
           r == draft.route
           P == ChangedParents(moves)
<1>1. /\ ns \in [DOMAIN nodes -> Node(r)]
      /\ \A n \in DOMAIN nodes : SameButDates(ns[n], nodes[n])
      /\ \A n \in DOMAIN nodes \ DOMAIN moves : ns[n] = nodes[n]
      /\ DOMAIN moves \subseteq Open(nodes)
      /\ \A n \in DOMAIN moves : ns[n].start = moves[n].start /\ ns[n].end = moves[n].end
  BY MovedTasks
<1>2. /\ nodes \in [DOMAIN r.milestones \cup TasksOf(r) -> Node(r)]
      /\ Scheduled(nodes) = TasksOf(r) /\ DOMAIN r.milestones \cap TasksOf(r) = {}
  BY PlanNodes
<1>3. after = [n \in DOMAIN nodes |-> after[n]]
  BY DEF Replanned
<1>4. ASSUME NEW n \in DOMAIN nodes \ P PROVE after[n] = ns[n]
  BY DEF Replanned
<1>5. ASSUME NEW m \in P
      PROVE  /\ m \in DOMAIN r.milestones /\ m \in DOMAIN nodes /\ after[m] \in Node(r)
             /\ SameButDates(after[m], nodes[m])
             /\ after[m].start = Hull(ns, m).start /\ after[m].end = Hull(ns, m).end
  <2> DEFINE s == Hull(ns, m).start
             e == Hull(ns, m).end
             C == Children(nodes, m)
  <2>1. m \in DOMAIN r.milestones /\ C \subseteq Scheduled(nodes) /\ HullIs(ns, m, C)
    BY MovedStones
  <2>2. m \in DOMAIN nodes /\ C \subseteq DOMAIN nodes
    BY <1>2, <2>1
  <2>3. s \in Int /\ e \in Int
    <3>1. \A n \in C : ns[n].start \in Int /\ ns[n].end \in Int
      BY <1>1, <2>2 DEF Node
    <3> HIDE DEF ns, C
    <3>2. QED BY <2>1, <3>1 DEF HullIs
  <2>4. after[m] = Redated(nodes[m], s, e)
    BY <2>2 DEF Replanned, Redated
  <2>5. nodes[m] \in Node(r)
    BY <1>2, <2>2
  <2> HIDE DEF s, e, after, r
  <2>6. after[m] \in Node(r) /\ after[m].start = s /\ after[m].end = e /\ SameButDates(after[m], nodes[m])
    BY <2>3, <2>4, <2>5, OtherDates
  <2>7. QED BY <2>1, <2>2, <2>6 DEF s, e
<1> HIDE DEF after, ns, r, P
<1>6. \A n \in DOMAIN nodes : after[n] \in Node(r) /\ SameButDates(after[n], nodes[n])
  BY <1>1, <1>4, <1>5
<1>7. after \in [DOMAIN nodes -> Node(r)]
  BY <1>3, <1>6
<1>8. \A n \in Scheduled(nodes) : n \in DOMAIN nodes /\ n \notin P
  BY <1>2, <1>5
<1>9. \A n \in DOMAIN moves : n \in Scheduled(nodes)
  BY <1>1 DEF Open
<1>10. \A n \in DOMAIN nodes \ (DOMAIN moves \cup P) : after[n] = nodes[n]
  BY <1>1, <1>4
<1>11. \A n \in Scheduled(nodes) : n \notin P /\ after[n] = ns[n]
  BY <1>4, <1>8
<1>12. \A n \in DOMAIN moves : after[n].start = moves[n].start /\ after[n].end = moves[n].end
  BY <1>1, <1>9, <1>11
<1>13. QED BY <1>5, <1>6, <1>7, <1>10, <1>11, <1>12 DEF after, ns, r, P

\* Spans stay spans if the moves are.
LEMMA ReplannedSpans ==
  ASSUME TypeOK, version > 1, NEW moves \in Moves, \A n \in DOMAIN moves : moves[n].start <= moves[n].end
  PROVE  \A n \in DOMAIN nodes : IsSpan(Replanned(moves)[n])
<1> DEFINE after == Replanned(moves)
           ns == TasksMoved(moves)
           r == draft.route
<1>1. /\ after \in [DOMAIN nodes -> Node(r)]
      /\ \A n \in DOMAIN nodes \ (DOMAIN moves \cup ChangedParents(moves)) : after[n] = nodes[n]
      /\ \A n \in Scheduled(nodes) : after[n] = ns[n]
      /\ \A n \in DOMAIN moves : after[n].start = moves[n].start /\ after[n].end = moves[n].end
      /\ \A m \in ChangedParents(moves) :
           after[m].start = Hull(ns, m).start /\ after[m].end = Hull(ns, m).end
  BY ReplannedNodes
<1>2. \A n \in DOMAIN nodes : IsSpan(nodes[n])
  BY PlanNodes
<1>3. \A n \in DOMAIN nodes : after[n].start \in Int /\ after[n].end \in Int
  BY <1>1 DEF Node
<1> HIDE DEF after, ns, r
<1>4. ASSUME NEW n \in DOMAIN nodes \ ChangedParents(moves) PROVE IsSpan(after[n])
  <2>1. CASE n \in DOMAIN moves
    BY <1>1, <1>3, <2>1 DEF IsSpan
  <2>2. CASE n \notin DOMAIN moves
    BY <1>1, <1>2, <2>2
  <2>3. QED BY <2>1, <2>2
<1>5. ASSUME NEW m \in DOMAIN nodes, m \in ChangedParents(moves) PROVE IsSpan(after[m])
  <2> DEFINE C == Children(nodes, m)
  <2>1. /\ C \subseteq Scheduled(nodes) /\ HullIs(ns, m, C) /\ C # {}
    BY <1>5, MovedStones DEF ns
  <2>2. PICK c \in C : TRUE
    BY <2>1
  <2>3. c \in Scheduled(nodes) /\ c \in DOMAIN nodes
    BY <2>1, <2>2 DEF Scheduled
  <2>4. c \notin ChangedParents(moves)
    BY <2>3, ReplannedNodes
  <2>5. ns[c].start <= ns[c].end /\ ns[c].start \in Int /\ ns[c].end \in Int
    BY <1>1, <1>4, <2>3, <2>4 DEF IsSpan
  <2>6. Hull(ns, m).start <= ns[c].start /\ ns[c].end <= Hull(ns, m).end
    BY <2>1, <2>2 DEF HullIs
  <2>7. after[m].start <= after[m].end
    BY <1>1, <1>3, <1>5, <2>5, <2>6
  <2>8. QED BY <1>3, <2>7 DEF IsSpan
<1>6. QED BY <1>4, <1>5 DEF after

-----------------------------------------------------------------------------
(* The type invariant, and the first theorem.                              *)

LEMMA TypeInit == ASSUME Init PROVE TypeOK
  BY ScheduleBounds DEF Init, TypeOK

\* What TypeOK says of the nodes, as long as the route is the same.
NodesOK(ns) ==
  LET r == draft.route
  IN  /\ ns \in [DOMAIN r.milestones \cup TasksOf(r) -> Node(r)]
      /\ \A n \in DOMAIN ns : IsSpan(ns[n]) /\ (ns[n].type = "task" <=> n \in TasksOf(r))

LEMMA TypeKept ==
  ASSUME TypeOK, draft' = draft, version' \in Nat, Acceptable(draft.route, draft.days), NodesOK(nodes')
  PROVE  TypeOK'
<1>1. IsRoute(draft'.route) /\ draft'.days \in Nat \ {0} /\ Acceptable(draft'.route, draft'.days)
  BY DEF TypeOK
<1>2. /\ nodes' \in [DOMAIN draft'.route.milestones \cup TasksOf(draft'.route) -> Node(draft'.route)]
      /\ \A n \in DOMAIN nodes' : IsSpan(nodes'[n]) /\ (nodes'[n].type = "task" <=> n \in TasksOf(draft'.route))
  BY DEF NodesOK
<1>3. QED BY <1>1, <1>2 DEF TypeOK

\* What a step may make of a node.
LEMMA NodesKept ==
  ASSUME TypeOK, version > 1, NEW ns, NEW r, r = draft.route, ns \in [DOMAIN nodes -> Node(r)],
         \A n \in DOMAIN nodes : IsSpan(ns[n]) /\ ns[n].type = nodes[n].type
  PROVE  NodesOK(ns)
<1>1. DOMAIN nodes = DOMAIN r.milestones \cup TasksOf(r)
  BY PlanNodes
<1>2. \A n \in DOMAIN nodes : nodes[n].type = "task" <=> n \in TasksOf(r)
  BY DEF TypeOK
<1>3. QED BY <1>1, <1>2 DEF NodesOK

LEMMA TypeConfirm == ASSUME TypeOK, ConfirmRoute PROVE TypeOK'
<1> DEFINE r == draft.route
           days == draft.days
           ns == NodesOf(r, days)
<1>1. /\ nodes' = ns /\ version' \in Nat /\ draft' = draft
      /\ IsRoute(r) /\ days \in Nat \ {0} /\ Acceptable(r, days)
  BY DEF ConfirmRoute, TypeOK
<1>2. /\ ns = [n \in DOMAIN r.milestones \cup TasksOf(r) |-> ns[n]]
      /\ \A m \in DOMAIN r.milestones : ns[m] = StoneNode(r, days, m)
      /\ \A i \in Places(r) : ns[r.tasks[i].id] = TaskNode(r, days, i)
      /\ \A n \in DOMAIN ns : ns[n].type = "task" <=> n \in TasksOf(r)
  BY <1>1, RouteNodes
<1>3. \A n \in DOMAIN ns : IsSpan(ns[n]) /\ ns[n].milestone \in DOMAIN r.milestones
  BY <1>1, RouteSpans
<1> HIDE DEF ns
<1>4. ASSUME NEW m \in DOMAIN r.milestones PROVE ns[m] \in Node(r)
  <2>1. ns[m] = StoneNode(r, days, m) /\ IsSpan(ns[m])
    BY <1>2, <1>3
  <2>2. ns[m].start \in Int /\ ns[m].end \in Int
    BY <2>1 DEF IsSpan
  <2> HIDE DEF r, days
  <2>3. QED BY <2>1, <2>2 DEF StoneNode, Node
<1>5. ASSUME NEW i \in Places(r) PROVE ns[r.tasks[i].id] \in Node(r)
  <2> DEFINE t == r.tasks[i].id
  <2>0. t \in TasksOf(r)
    BY <1>1, RoutePlaces
  <2>1. ns[t] = TaskNode(r, days, i) /\ IsSpan(ns[t])
    BY <1>2, <1>3, <2>0
  <2>2. ns[t].start \in Int /\ ns[t].end \in Int
    BY <2>1 DEF IsSpan
  <2>3. r.tasks[i].hours \in Nat /\ r.tasks[i].milestone \in DOMAIN r.milestones
    BY <1>1, RouteTasks
  <2> HIDE DEF r, days, t
  <2>4. ns[t] \in Node(r)
    BY <2>1, <2>2, <2>3 DEF TaskNode, Node
  <2>5. QED BY <2>4 DEF t
<1>6. \A n \in TasksOf(r) : ns[n] \in Node(r)
  BY <1>1, <1>5, RoutePlaces
<1> HIDE DEF r, days
<1>7. ns \in [DOMAIN r.milestones \cup TasksOf(r) -> Node(r)]
  BY <1>2, <1>4, <1>6
<1>8. NodesOK(ns)
  BY <1>2, <1>3, <1>7 DEF NodesOK, r
<1>9. QED BY <1>1, <1>8, TypeKept DEF r, days

LEMMA TypeEdit ==
  ASSUME TypeOK, NEW n \in DOMAIN nodes, NEW span \in Edits, Edit(n, span)
  PROVE  TypeOK'
<1> DEFINE r == draft.route
           a == nodes[n]
           s == span.start
           e == span.end
           x == a.manual \cup {f \in {"start", "end"} : a[f] # span[f]}
           b == [Redated(a, s, e) EXCEPT !.manual = x]
<1>1. /\ version > 1 /\ version' \in Nat /\ draft' = draft /\ s <= e
      /\ nodes' = [nodes EXCEPT ![n].start = s, ![n].end = e, ![n].manual = x]
  BY ScheduleBounds DEF Edit, TypeOK
<1>2. nodes \in [DOMAIN nodes -> Node(r)] /\ \A k \in DOMAIN nodes : IsSpan(nodes[k])
  BY <1>1, PlanNodes
<1>3. s \in Int /\ e \in Int
  BY ScheduleBounds
<1>4. a \in Node(r)
  BY <1>2
<1>5. nodes' = [nodes EXCEPT ![n] = b]
  BY <1>1, <1>2, <1>4 DEF Redated, Node
<1>6. x \in SUBSET {"start", "end"}
  BY <1>4 DEF Node
<1> HIDE DEF r, a, s, e, x
<1>7. /\ Redated(a, s, e) \in Node(r) /\ Redated(a, s, e).start = s /\ Redated(a, s, e).end = e
      /\ Redated(a, s, e).type = a.type
  BY <1>3, <1>4, OtherDates DEF SameButDates
<1>8. b \in Node(r) /\ b.start = s /\ b.end = e /\ b.type = a.type
  BY <1>6, <1>7 DEF Node
<1> HIDE DEF b
<1>9. IsSpan(b)
  BY <1>1, <1>3, <1>8 DEF IsSpan
<1> DEFINE ns == nodes'
<1>10. /\ ns \in [DOMAIN nodes -> Node(r)] /\ ns[n] = b
       /\ \A k \in DOMAIN nodes \ {n} : ns[k] = nodes[k]
  BY <1>2, <1>5, <1>8
<1> HIDE DEF ns
<1>11. \A k \in DOMAIN nodes : IsSpan(ns[k]) /\ ns[k].type = nodes[k].type
  BY <1>2, <1>8, <1>9, <1>10 DEF a
<1>12. NodesOK(ns)
  BY <1>1, <1>10, <1>11, NodesKept DEF r
<1>13. Acceptable(draft.route, draft.days)
  BY <1>1 DEF TypeOK
<1>14. QED BY <1>1, <1>12, <1>13, TypeKept DEF ns

LEMMA TypeComplete ==
  ASSUME TypeOK, NEW n \in DOMAIN nodes, Complete(n)
  PROVE  TypeOK'
<1> DEFINE r == draft.route
           a == nodes[n]
           b == [a EXCEPT !.status = "done"]
           ns == nodes'
<1>1. /\ version > 1 /\ version' \in Nat /\ draft' = draft /\ ns = [nodes EXCEPT ![n].status = "done"]
  BY ScheduleBounds DEF Complete, TypeOK
<1>2. nodes \in [DOMAIN nodes -> Node(r)] /\ \A k \in DOMAIN nodes : IsSpan(nodes[k])
  BY <1>1, PlanNodes
<1>3. a \in Node(r)
  BY <1>2
<1>4. ns = [nodes EXCEPT ![n] = b]
  BY <1>1, <1>2
<1> HIDE DEF r, ns
<1>5. b \in Node(r) /\ b.type = a.type /\ b.start = a.start /\ b.end = a.end
  BY <1>3 DEF Node
<1> HIDE DEF b
<1>6. ns \in [DOMAIN nodes -> Node(r)] /\ ns[n] = b /\ \A k \in DOMAIN nodes \ {n} : ns[k] = nodes[k]
  BY <1>2, <1>4, <1>5
<1>7. \A k \in DOMAIN nodes : IsSpan(ns[k]) /\ ns[k].type = nodes[k].type
  BY <1>2, <1>5, <1>6 DEF IsSpan
<1>8. NodesOK(ns)
  BY <1>1, <1>6, <1>7, NodesKept DEF r
<1>9. Acceptable(draft.route, draft.days)
  BY <1>1 DEF TypeOK
<1>10. QED BY <1>1, <1>8, <1>9, TypeKept DEF ns

LEMMA TypeReplan ==
  ASSUME TypeOK, NEW effective, NEW budget, NEW moves \in Moves, Replan(effective, budget, moves)
  PROVE  TypeOK'
<1> DEFINE r == draft.route
           ns == nodes'
<1>1. /\ version > 1 /\ version' \in Nat /\ draft' = draft /\ ns = Replanned(moves)
      /\ \A n \in DOMAIN moves : moves[n].start <= moves[n].end
  BY DEF Replan, Prepared, Compiles, MoveFits, TypeOK
<1>2. ns \in [DOMAIN nodes -> Node(r)] /\ \A n \in DOMAIN nodes : ns[n].type = nodes[n].type
  BY <1>1, ReplannedNodes DEF SameButDates
<1>3. \A n \in DOMAIN nodes : IsSpan(ns[n])
  BY <1>1, ReplannedSpans
<1> HIDE DEF ns, r
<1>4. NodesOK(ns)
  BY <1>1, <1>2, <1>3, NodesKept DEF r
<1>5. Acceptable(draft.route, draft.days)
  BY <1>1 DEF TypeOK
<1>6. QED BY <1>1, <1>4, <1>5, TypeKept DEF ns

LEMMA TypeStutter == ASSUME TypeOK, UNCHANGED vars PROVE TypeOK'
  BY DEF TypeOK, vars

\* The nodes of a plan are those of its route and keep its shape.
THEOREM PlanTypeCorrect == Spec => []TypeOK
<1>1. Init => TypeOK
  BY TypeInit
<1>2. TypeOK /\ [Next]_vars => TypeOK'
  <2> SUFFICES ASSUME TypeOK, [Next]_vars PROVE TypeOK'
    OBVIOUS
  <2>1. CASE ConfirmRoute
    BY <2>1, TypeConfirm
  <2>2. ASSUME NEW n \in DOMAIN nodes, NEW span \in Edits, Edit(n, span) PROVE TypeOK'
    BY <2>2, TypeEdit
  <2>3. ASSUME NEW n \in DOMAIN nodes, Complete(n) PROVE TypeOK'
    BY <2>3, TypeComplete
  <2>4. ASSUME NEW effective \in Effective, NEW budget \in Budgets, NEW moves \in Moves,
               Replan(effective, budget, moves)
        PROVE TypeOK'
    BY <2>4, TypeReplan
  <2>5. CASE UNCHANGED vars
    BY <2>5, TypeStutter
  <2>6. QED BY <2>1, <2>2, <2>3, <2>4, <2>5 DEF Next
<1>3. QED BY <1>1, <1>2, PTL DEF Spec

\* Whatever route is confirmed: its tasks lie in their milestones and in weeks of
\* the calendar, in the order of the weeks and of their dependencies, and no
\* week holds more hours than its elastic limit.
THEOREM RoutesAreSound == Spec => []RouteIsSound
<1>1. TypeOK => RouteIsSound
  BY RouteSound DEF TypeOK
<1>2. QED BY <1>1, PlanTypeCorrect, PTL

-----------------------------------------------------------------------------
(* The work of a week, counted by tasks and by days.                       *)

LEMMA WholeQuotient ==
  ASSUME NEW q \in Int, NEW b \in Nat \ {0}
  PROVE  (b * q) \div b = q
<1> DEFINE a == b * q
<1>1. a \in Int /\ b * q <= a /\ a < b * q + b
  OBVIOUS
<1> HIDE DEF a
<1>2. q = a \div b
  BY <1>1, Quotient
<1>3. QED BY <1>2 DEF a

\* The work of one of k days, and of c of them.
OneDay(h, k)     == (h * Scale) \div k
SomeDays(h, k, c) == (h * Scale * c) \div k

\* Hours times Scale are shared among so many days without a rest.
LEMMA SharesAdd ==
  ASSUME NEW h \in Nat, NEW k \in Nat \ {0}, Scale % k = 0, NEW c \in Nat
  PROVE  OneDay(h, k) \in Int /\ SomeDays(h, k, c) = OneDay(h, k) * c
<1> DEFINE S == Scale
           s == S \div k
<1>1. s \in Int /\ S = k * s
  <2>0. S \in Nat /\ S % k = 0
    BY ScheduleBounds
  <2> HIDE DEF S
  <2>1. S = k * (S \div k) + (S % k) /\ S \div k \in Int /\ S % k \in Int
    BY <2>0
  <2>2. k * (S \div k) \in Int
    BY <2>1
  <2>3. QED BY <2>0, <2>1, <2>2
<1> HIDE DEF s, S
<1> DEFINE p == h * s
           q == h * s * c
<1>2. p \in Int /\ q \in Int /\ q = p * c
  BY <1>1
<1>3. h * S = k * p
  BY <1>1
<1>4. h * S * c = k * q
  BY <1>1
<1> HIDE DEF p, q
<1>5. (k * p) \div k = p /\ (k * q) \div k = q
  BY <1>2, WholeQuotient
<1>6. QED BY <1>2, <1>3, <1>4, <1>5 DEF OneDay, SomeDays, S

\* The days two spans have in common, counted.
LEMMA OverlapIs ==
  ASSUME NEW a \in Int, NEW b \in Int, NEW c \in Int, NEW d \in Int
  PROVE  /\ Overlap(a, b, c, d) \in Nat
         /\ IsFiniteSet(c .. d)
         /\ Cardinality((c .. d) \cap (a .. b)) = Overlap(a, b, c, d)
<1> DEFINE from == Greatest({c, a})
           to == Least({d, b})
<1>1. from = (IF c <= a THEN a ELSE c) /\ to = (IF d <= b THEN d ELSE b)
  BY OfTwo
<1>2. Overlap(a, b, c, d) = IF to >= from THEN to - from + 1 ELSE 0
  BY DEF Overlap
<1> HIDE DEF from, to
<1>3. from \in Int /\ to \in Int
  BY <1>1
<1>4. (c .. d) \cap (a .. b) = from .. to
  <2>1. ASSUME NEW x \in Int PROVE (c <= x /\ x <= d /\ a <= x /\ x <= b) <=> (from <= x /\ x <= to)
    BY <1>1
  <2>2. QED BY <1>3, <2>1
<1>5. IsFiniteSet(c .. d)
  BY FS_Interval
<1>6. Cardinality(from .. to) = IF from > to THEN 0 ELSE to - from + 1
  BY <1>3, FS_Interval
<1>7. Overlap(a, b, c, d) \in Nat /\ Overlap(a, b, c, d) = IF from > to THEN 0 ELSE to - from + 1
  BY <1>2, <1>3
<1>8. QED BY <1>4, <1>5, <1>6, <1>7

\* A task on the days it is counted for.
Counted(n, effective) == FirstDay(n, effective) .. n.end

LEMMA CountedIs ==
  ASSUME NEW r, NEW n \in Node(r), NEW effective \in Int
  PROVE  /\ FirstDay(n, effective) \in Int
         /\ {k \in n.start .. n.end : n.status = "done" \/ k >= effective} = Counted(n, effective)
<1>1. n.start \in Int /\ n.end \in Int
  BY DEF Node
<1>2. CASE n.status = "done"
  <2>1. FirstDay(n, effective) = n.start
    BY <1>2 DEF FirstDay
  <2>2. QED BY <1>1, <1>2, <2>1 DEF Counted
<1>3. CASE n.status # "done"
  <2> DEFINE a == n.start
             b == n.end
             f == FirstDay(n, effective)
  <2>1. f = IF a <= effective THEN effective ELSE a
    BY <1>1, <1>3, OfTwo DEF FirstDay
  <2>2. {k \in a .. b : n.status = "done" \/ k >= effective} = {k \in a .. b : k >= effective}
    BY <1>3
  <2>3. a \in Int /\ b \in Int
    BY <1>1
  <2> HIDE DEF a, b, f
  <2>4. f \in Int /\ {k \in a .. b : k >= effective} = f .. b
    BY <2>1, <2>3
  <2>5. QED BY <2>2, <2>4 DEF a, b, f, Counted
<1>4. QED BY <1>2, <1>3

\* What a week has of a task: its work of those days.
LEMMA TaskOfWeek ==
  ASSUME NEW r, NEW n \in Node(r), NEW effective \in Int, NEW w \in Int, NEW v \in Int,
         FirstDay(n, effective) <= n.end, Scale % (n.end - FirstDay(n, effective) + 1) = 0
  PROVE  LET first == FirstDay(n, effective)
             work == [d \in w .. v |-> OnDay(n, effective, d)]
         IN  /\ \A d \in w .. v : work[d] \in Int
             /\ Total(work, w .. v) = (n.hours * Scale * Overlap(first, n.end, w, v)) \div (n.end - first + 1)
<1> DEFINE first == FirstDay(n, effective)
           last_ == n.end
           D == w .. v
           B == Counted(n, effective)
           k == last_ - first + 1
           h == n.hours
           q == OneDay(h, k)
           c == Overlap(first, last_, w, v)
           work == [d \in D |-> OnDay(n, effective, d)]
<1>1. /\ first \in Int /\ last_ \in Int /\ h \in Nat /\ first <= last_
      /\ {x \in n.start .. n.end : n.status = "done" \/ x >= effective} = B
  BY CountedIs DEF Node
<1>2. B = first .. last_
  BY DEF Counted
<1> HIDE DEF first, last_, B, h
<1>3. k \in Nat \ {0} /\ Cardinality(B) = k
  BY <1>1, <1>2, FS_Interval
<1>4. c \in Nat /\ IsFiniteSet(D) /\ Cardinality(D \cap B) = c
  BY <1>1, <1>2, OverlapIs
<1>5. Scale \in Nat /\ Scale % k = 0
  BY ScheduleBounds DEF first, last_
<1>6. ASSUME NEW d \in D PROVE work[d] = IF d \in B THEN q ELSE 0
  <2>1. OnDay(n, effective, d) = IF d \in B THEN (n.hours * Scale) \div Cardinality(B) ELSE 0
    BY <1>1 DEF OnDay
  <2>2. work[d] = OnDay(n, effective, d)
    OBVIOUS
  <2> HIDE DEF work, k
  <2>3. QED BY <1>3, <2>1, <2>2 DEF h, OneDay
<1> HIDE DEF k, c, D, work
<1>7. q \in Int /\ SomeDays(h, k, c) = q * c
  BY <1>1, <1>3, <1>4, <1>5, SharesAdd
<1> HIDE DEF q
<1>8. Total(work, D) = q * Cardinality(D \cap B)
  <2>1. IsOnly(work, D, q, B)
    BY <1>6 DEF IsOnly
  <2>2. q \in Int /\ IsFiniteSet(D)
    BY <1>4, <1>7
  <2> HIDE DEF B
  <2>3. QED BY <2>1, <2>2, TotalCount, Zenon
<1>9. \A d \in D : work[d] \in Int
  BY <1>6, <1>7
<1>10. Total(work, D) = SomeDays(h, k, c)
  BY <1>4, <1>7, <1>8
<1>11. QED BY <1>9, <1>10 DEF SomeDays, work, D, h, c, k, first, last_

\* A task whose work is shared out among its days without a rest.
Divisible(n, effective) ==
  /\ FirstDay(n, effective) <= n.end
  /\ Scale % (n.end - FirstDay(n, effective) + 1) = 0

\* The work of a week is the same counted day by day and task by task.
LEMMA WeekWorkIs ==
  ASSUME NEW r, NEW ns, NEW effective \in Int, NEW w \in Int, IsFiniteSet(Scheduled(ns)),
         \A n \in Scheduled(ns) : ns[n] \in Node(r) /\ Divisible(ns[n], effective)
  PROVE  WeekWork(ns, effective, w) = Occupied(ns, w, w + WeekDays - 1, effective)
<1> DEFINE D == Scheduled(ns)
           v == w + WeekDays - 1
           E == w .. v
           share(n) == LET first == FirstDay(n, effective)
                       IN (n.hours * Scale * Overlap(first, n.end, w, v)) \div (n.end - first + 1)
           row == [n \in D |-> share(ns[n])]
           onDay == [n \in D |-> [d \in E |-> OnDay(ns[n], effective, d)]]
           work(d) == Total([n \in D |-> OnDay(ns[n], effective, d)], D)
           column == [d \in E |-> work(d)]
<1>1. v \in Int /\ IsFiniteSet(E)
  BY RouteBounds, FS_Interval
<1>2. Occupied(ns, w, v, effective) = Total(row, D)
  BY DEF Occupied
<1>3. WeekWork(ns, effective, w) = Total(column, E)
  BY DEF WeekWork
<1>4. ASSUME NEW n \in D PROVE (\A d \in E : onDay[n][d] \in Int) /\ row[n] = Total(onDay[n], E)
  <2> DEFINE a == ns[n]
             work_ == [d \in E |-> OnDay(a, effective, d)]
  <2>1. a \in Node(r) /\ FirstDay(a, effective) <= a.end /\ Scale % (a.end - FirstDay(a, effective) + 1) = 0
    BY DEF Divisible
  <2>2. onDay[n] = work_ /\ row[n] = share(a)
    OBVIOUS
  <2> HIDE DEF a, onDay, row, v, D
  <2>3. (\A d \in E : work_[d] \in Int) /\ Total(work_, E) = share(a)
    BY <1>1, <2>1, TaskOfWeek
  <2> HIDE DEF work_, share, E
  <2>4. QED BY <2>2, <2>3
<1>5. ASSUME NEW d \in E PROVE column[d] = Total([n \in D |-> onDay[n][d]], D)
  <2>1. \A n \in D : onDay[n][d] = OnDay(ns[n], effective, d)
    OBVIOUS
  <2>2. [n \in D |-> onDay[n][d]] = [n \in D |-> OnDay(ns[n], effective, d)]
    BY <2>1
  <2>3. column[d] = work(d)
    OBVIOUS
  <2> HIDE DEF onDay, column
  <2>4. QED BY <2>2, <2>3
<1> HIDE DEF row, onDay, column, share, E, D
<1>6. IsFiniteSet(D)
  BY DEF D
<1>7. Total(row, D) = Total(column, E)
  <2>1. AreRows(row, onDay, D, E) /\ AreColumns(column, onDay, D, E)
    BY <1>4, <1>5 DEF AreRows, AreColumns
  <2>2. QED BY <1>1, <1>6, <2>1, TotalSwap
<1>8. QED BY <1>2, <1>3, <1>7

-----------------------------------------------------------------------------
(* What the compiler asks of the moves and what the user is promised.      *)

MovesFit(moves, effective) == \A n \in DOMAIN moves : MoveFits(n, moves[n], effective)

LEMMA ScheduleIs ==
  ASSUME TypeOK, version > 1
  PROVE  /\ ScheduleStart \in Int /\ ScheduleLimit \in Int
         /\ \A n \in Scheduled(nodes) : ScheduleStart <= nodes[n].start
<1> DEFINE r == draft.route
           T == Scheduled(nodes)
           start == [n \in T |-> nodes[n].start]
           S == {start[n] : n \in T}
<1>1. T = TasksOf(r) /\ IsFiniteSet(T) /\ nodes \in [DOMAIN r.milestones \cup TasksOf(r) -> Node(r)]
  BY PlanNodes
<1>2. T # {}
  <2>1. \E i \in Places(r) : r.tasks[i].dependsOn # {}
    BY DEF TypeOK, Acceptable, TasksFit
  <2>2. QED BY <1>1, <2>1 DEF TasksOf
<1>3. \A n \in T : start[n] = nodes[n].start /\ start[n] \in Int
  BY <1>1 DEF Node
<1>4. ScheduleStart = Least(S)
  BY DEF ScheduleStart
<1> HIDE DEF start, T
<1>5. IsFiniteSet(S) /\ S \subseteq Int /\ S # {}
  BY <1>1, <1>2, <1>3, ImageFinite
<1>6. \A n \in T : start[n] \in S
  OBVIOUS
<1> HIDE DEF S
<1>7. Least(S) \in S /\ \A n \in S : Least(S) <= n
  BY <1>5, LeastExists
<1>8. ScheduleStart \in Int /\ \A n \in T : ScheduleStart <= nodes[n].start
  BY <1>3, <1>4, <1>5, <1>6, <1>7
<1>9. ScheduleLimit \in Int
  BY <1>8, RouteBounds, ScheduleBounds DEF ScheduleLimit
<1>10. QED BY <1>8, <1>9 DEF T

\* A node that is given the dates it has.
LEMMA SameDates ==
  ASSUME NEW r, NEW n \in Node(r)
  PROVE  Redated(n, n.start, n.end) = n
  BY DEF Node, Redated

\* A task that is changed is one that is moved to other dates.
LEMMA ChangedIsMoved ==
  ASSUME TypeOK, version > 1, NEW moves \in Moves, NEW n \in Scheduled(nodes), Replanned(moves)[n] # nodes[n]
  PROVE  n \in DOMAIN moves /\ Moved(n, moves[n]) /\ nodes[n].milestone \in ChangedParents(moves)
<1>1. n \in DOMAIN nodes /\ Replanned(moves)[n] = TasksMoved(moves)[n]
  BY ReplannedNodes DEF Scheduled
<1>2. n \in DOMAIN moves
  BY <1>1, MovedTasks
<1>3. nodes[n] \in Node(draft.route)
  BY <1>1, PlanNodes
<1>4. Replanned(moves)[n] = Redated(nodes[n], moves[n].start, moves[n].end)
  BY <1>1, <1>2 DEF TasksMoved, Redated
<1>5. Moved(n, moves[n])
  BY <1>3, <1>4, SameDates DEF Moved
<1>6. QED BY <1>2, <1>5 DEF ChangedParents, Parents

\* The dates of what is replanned.
LEMMA ReplannedDates ==
  ASSUME TypeOK, version > 1, NEW moves \in Moves, NEW effective \in Int, MovesFit(moves, effective)
  PROVE  LET after == Replanned(moves)
         IN  /\ \A n \in DOMAIN nodes : IsSpan(after[n])
             /\ \A n \in DOMAIN moves : /\ after[n].start >= ScheduleStart /\ after[n].end <= ScheduleLimit
                                        /\ MayStart(n, after[n], effective)
<1>1. \A n \in DOMAIN moves : /\ moves[n].start <= moves[n].end
                              /\ moves[n].start >= ScheduleStart /\ moves[n].end <= ScheduleLimit
                              /\ MayStart(n, moves[n], effective)
  BY DEF MovesFit, MoveFits
<1>2. \A n \in DOMAIN nodes : IsSpan(Replanned(moves)[n])
  BY <1>1, ReplannedSpans
<1>3. \A n \in DOMAIN moves : Replanned(moves)[n].start = moves[n].start /\ Replanned(moves)[n].end = moves[n].end
  BY ReplannedNodes
<1>4. QED BY <1>1, <1>2, <1>3 DEF MayStart

\* The weeks of a schedule that is fit, by days and by tasks.
LEMMA WeeksAreOne ==
  ASSUME TypeOK, version > 1, NEW moves \in Moves, NEW effective \in Int, MovesFit(moves, effective),
         Prepared(effective), NotOverdue(Replanned(moves), effective), NEW w \in Weeks
  PROVE  /\ WeekWork(Replanned(moves), effective, w)
              = Occupied(Replanned(moves), w, w + WeekDays - 1, effective)
         /\ (\E d \in w .. w + WeekDays - 1 : d >= effective) <=> w + WeekDays - 1 >= effective
<1> DEFINE after == Replanned(moves)
           r == draft.route
<1>0. WeekDays \in Nat \ {0} /\ w \in Int /\ ScheduleStart \in Int
  BY RouteBounds, ScheduleBounds, ScheduleIs DEF Weeks
<1>1. /\ after \in [DOMAIN nodes -> Node(r)]
      /\ \A n \in DOMAIN nodes : SameButDates(after[n], nodes[n])
      /\ \A n \in DOMAIN nodes : IsSpan(after[n])
  BY ReplannedNodes, ReplannedDates
<1> HIDE DEF after
<1>2. Scheduled(after) = Scheduled(nodes)
  BY <1>1 DEF Scheduled, SameButDates
<1>3. IsFiniteSet(Scheduled(after))
  BY <1>2, PlanNodes
<1>4. ASSUME NEW n \in Scheduled(after)
      PROVE  after[n].start >= ScheduleStart /\ after[n].end <= ScheduleLimit
  <2>1. n \in Scheduled(nodes) /\ n \in DOMAIN nodes
    BY <1>2 DEF Scheduled
  <2>2. CASE n \in DOMAIN moves
    BY <2>2, ReplannedDates DEF after
  <2>3. CASE n \notin DOMAIN moves
    <3>1. after[n] = nodes[n]
      BY <2>1, <2>3, ChangedIsMoved DEF after
    <3>2. ScheduleStart <= nodes[n].start /\ nodes[n].end <= ScheduleLimit
      BY <2>1, ScheduleIs DEF Prepared
    <3>3. nodes[n].start \in Int
      BY <2>1, PlanNodes DEF IsSpan
    <3>4. QED BY <1>0, <3>1, <3>2, <3>3
  <2>4. QED BY <2>2, <2>3
<1>5. ASSUME NEW n \in Scheduled(after) PROVE after[n] \in Node(r) /\ Divisible(after[n], effective)
  <2> DEFINE a == after[n]
             first == FirstDay(a, effective)
             k == a.end - first + 1
  <2>1. n \in DOMAIN nodes
    BY <1>1 DEF Scheduled
  <2>2. a \in Node(r) /\ IsSpan(a) /\ a.start >= ScheduleStart /\ a.end <= ScheduleLimit
    BY <1>1, <1>4, <2>1
  <2>3. a.status # "done" => a.end >= effective
    BY <1>5 DEF NotOverdue, Open, after
  <2> HIDE DEF a
  <2>4. a.start \in Int /\ a.end \in Int /\ a.start <= a.end
    BY <2>2 DEF IsSpan
  <2>5. first \in Int /\ a.start <= first /\ first <= a.end
    <3>1. CASE a.status = "done"
      BY <2>4, <3>1 DEF FirstDay
    <3>2. CASE a.status # "done"
      <4>1. first = IF a.start <= effective THEN effective ELSE a.start
        BY <2>4, <3>2, OfTwo DEF FirstDay
      <4>2. QED BY <2>3, <2>4, <3>2, <4>1
    <3>3. QED BY <3>1, <3>2
  <2> HIDE DEF first
  <2>6. k \in 1 .. LimitWeeks * WeekDays
    <3>1. ScheduleLimit = ScheduleStart + LimitWeeks * WeekDays - 1
      BY DEF ScheduleLimit
    <3>2. LimitWeeks * WeekDays \in Nat
      BY <1>0, ScheduleBounds
    <3>3. QED BY <1>0, <2>2, <2>4, <2>5, <3>1, <3>2
  <2>7. Scale % k = 0
    <3> HIDE DEF k
    <3>1. QED BY <2>6, ScheduleBounds
  <2>8. Divisible(a, effective)
    BY <2>5, <2>7 DEF Divisible, first
  <2>9. QED BY <2>2, <2>8 DEF a
<1>6. WeekWork(after, effective, w) = Occupied(after, w, w + WeekDays - 1, effective)
  BY <1>0, <1>3, <1>5, WeekWorkIs
<1>7. (\E d \in w .. w + WeekDays - 1 : d >= effective) <=> w + WeekDays - 1 >= effective
  <2> DEFINE v == w + WeekDays - 1
  <2>1. v \in Int /\ w <= v
    BY <1>0
  <2> HIDE DEF v
  <2>2. (\E d \in w .. v : d >= effective) <=> v >= effective
    <3>1. v \in w .. v
      BY <1>0, <2>1
    <3>2. \A d \in w .. v : d >= effective => v >= effective
      BY <1>0, <2>1
    <3>3. QED BY <3>1, <3>2
  <2>3. QED BY <2>2 DEF v
<1>8. QED BY <1>6, <1>7 DEF after

\* In turn, by spans and by days.
AfterByDays(after, d, p) ==
  \/ \A k \in after[d].start .. after[d].end : k > after[p].end
  \/ /\ \A f \in {"start", "end"} : after[d][f] = after[p][f] /\ nodes[d][f] = nodes[p][f]
     /\ Cardinality(after[d].start .. after[d].end) <= WeekDays
     /\ Cardinality(nodes[d].start .. nodes[d].end) <= WeekDays

LEMMA SpanDays ==
  ASSUME NEW n, IsSpan(n)
  PROVE  /\ \A e \in Int : (\A k \in n.start .. n.end : k > e) <=> n.start > e
         /\ Cardinality(n.start .. n.end) <= WeekDays <=> n.end - n.start < WeekDays
<1> DEFINE a == n.start
           b == n.end
<1>1. a \in Int /\ b \in Int /\ a <= b /\ WeekDays \in Nat \ {0}
  BY RouteBounds DEF IsSpan
<1> HIDE DEF a, b
<1>2. Cardinality(a .. b) = b - a + 1
  <2>1. ~ a > b
    BY <1>1
  <2>2. QED BY <1>1, <2>1, FS_Interval, Zenon
<1>3. Cardinality(a .. b) <= WeekDays <=> b - a < WeekDays
  BY <1>1, <1>2
<1>4. ASSUME NEW e \in Int PROVE (\A k \in a .. b : k > e) <=> a > e
  <2>1. a \in a .. b
    BY <1>1
  <2>2. ASSUME a > e, NEW k \in a .. b PROVE k > e
    BY <1>1, <2>2
  <2>3. QED BY <2>1, <2>2
<1>5. QED BY <1>3, <1>4 DEF a, b

LEMMA TurnIs ==
  ASSUME TypeOK, version > 1, NEW moves \in Moves, NEW effective \in Int, MovesFit(moves, effective),
         NEW dep \in Deps
  PROVE  InTurn(Replanned(moves), dep[1], dep[2]) <=> AfterByDays(Replanned(moves), dep[1], dep[2])
<1> DEFINE after == Replanned(moves)
           r == draft.route
           a == dep[1]
           b == dep[2]
<1>1. a \in Scheduled(nodes) /\ b \in Scheduled(nodes)
  <2>1. IsRoute(r) /\ draft.days \in Nat \ {0} /\ Acceptable(r, draft.days)
    BY DEF TypeOK
  <2>2. dep \in DepsOf(r)
    BY DEF Deps
  <2>3. PICK i \in Places(r) : \E q \in r.tasks[i].dependsOn : dep = <<r.tasks[i].id, q>>
    BY <2>2 DEF DepsOf
  <2>4. PICK q \in r.tasks[i].dependsOn : dep = <<r.tasks[i].id, q>>
    BY <2>3
  <2>5. a = r.tasks[i].id /\ b = q
    BY <2>4
  <2>6. PICK j \in Places(r) : q = r.tasks[j].id
    BY <2>1, <2>4, RouteTasks
  <2>7. a \in TasksOf(r) /\ b \in TasksOf(r)
    BY <2>5, <2>6 DEF TasksOf
  <2>8. QED BY <2>7, PlanNodes
<1> HIDE DEF a, b
<1>2. a \in DOMAIN nodes /\ b \in DOMAIN nodes /\ nodes[a].type = "task" /\ nodes[b].type = "task"
  BY <1>1 DEF Scheduled
<1>3. after[a].type = "task" /\ after[b].type = "task"
  BY <1>2, ReplannedNodes DEF SameButDates
<1>4. IsSpan(after[a]) /\ IsSpan(after[b]) /\ IsSpan(nodes[a]) /\ IsSpan(nodes[b])
  BY <1>2, ReplannedDates, PlanNodes
<1> HIDE DEF after
<1>5. after[a].start > after[b].end <=> \A k \in after[a].start .. after[a].end : k > after[b].end
  <2>1. after[b].end \in Int
    BY <1>4 DEF IsSpan
  <2>2. QED BY <1>4, <2>1, SpanDays
<1>6. /\ Cardinality(after[a].start .. after[a].end) <= WeekDays <=> after[a].end - after[a].start < WeekDays
      /\ Cardinality(nodes[a].start .. nodes[a].end) <= WeekDays <=> nodes[a].end - nodes[a].start < WeekDays
  BY <1>4, SpanDays
<1>7. SharedWindow(nodes, a, b) /\ SharedWindow(after, a, b) <=>
        /\ \A f \in {"start", "end"} : after[a][f] = after[b][f] /\ nodes[a][f] = nodes[b][f]
        /\ Cardinality(after[a].start .. after[a].end) <= WeekDays
        /\ Cardinality(nodes[a].start .. nodes[a].end) <= WeekDays
  BY <1>2, <1>3, <1>6, Zenon DEF SharedWindow
<1>8. InTurn(after, a, b) <=> AfterByDays(after, a, b)
  BY <1>5, <1>7, Zenon DEF InTurn, AfterByDays
<1>9. QED BY <1>8 DEF after, a, b

\* Children stay children.
LEMMA SameChildren ==
  ASSUME TypeOK, version > 1, NEW moves \in Moves
  PROVE  LET after == Replanned(moves)
         IN  /\ Scheduled(after) = Scheduled(nodes) /\ Open(after) = Open(nodes)
             /\ \A m : Children(after, m) = Children(nodes, m)
<1> DEFINE after == Replanned(moves)
<1>1. DOMAIN after = DOMAIN nodes /\ \A n \in DOMAIN nodes : SameButDates(after[n], nodes[n])
  BY ReplannedNodes
<1> HIDE DEF after
<1>2. Scheduled(after) = Scheduled(nodes)
  BY <1>1 DEF Scheduled, SameButDates
<1>3. Open(after) = Open(nodes)
  BY <1>1, <1>2 DEF Open, Scheduled, SameButDates
<1>4. \A m : Children(after, m) = Children(nodes, m)
  BY <1>1, <1>2 DEF Children, Scheduled, SameButDates
<1>5. QED BY <1>2, <1>3, <1>4 DEF after

\* The days of a milestone's tasks.
DaysUnder(ns, m) == UNION {ns[c].start .. ns[c].end : c \in Children(ns, m)}

\* A milestone whose tasks are moved is put right around them.
LEMMA StoneAroundTasks ==
  ASSUME TypeOK, version > 1, NEW moves \in Moves, NEW effective \in Int, MovesFit(moves, effective),
         NEW m \in ChangedParents(moves)
  PROVE  LET after == Replanned(moves)
         IN  after[m].start = Least(DaysUnder(after, m)) /\ after[m].end = Greatest(DaysUnder(after, m))
<1> DEFINE after == Replanned(moves)
           ns == TasksMoved(moves)
           C == Children(nodes, m)
           U == DaysUnder(after, m)
           s == Hull(ns, m).start
           e == Hull(ns, m).end
<1>1. Children(after, m) = C
  BY SameChildren
<1>2. C \subseteq Scheduled(nodes) /\ C \subseteq DOMAIN nodes /\ HullIs(ns, m, C)
  BY MovedStones DEF Scheduled
<1>3. /\ \A n \in C : after[n] = ns[n]
      /\ after[m].start = s /\ after[m].end = e
  BY <1>2, ReplannedNodes
<1>4. \A n \in C : IsSpan(after[n])
  BY <1>2, ReplannedDates
<1>5. U = UNION {after[c].start .. after[c].end : c \in C}
  BY <1>1 DEF DaysUnder
<1>6. /\ s \in {ns[n].start : n \in C} /\ \A n \in C : s <= ns[n].start
      /\ e \in {ns[n].end : n \in C} /\ \A n \in C : ns[n].end <= e
  BY <1>2 DEF HullIs
<1> HIDE DEF after, ns, C, U, s, e
<1>7. PICK a \in C : s = after[a].start
  BY <1>3, <1>6
<1>8. PICK b \in C : e = after[b].end
  BY <1>3, <1>6
<1>9. ASSUME NEW k \in U PROVE k \in Int /\ s <= k /\ k <= e
  <2>1. PICK c \in C : k \in after[c].start .. after[c].end
    BY <1>5
  <2>2. s <= after[c].start /\ after[c].end <= e
    BY <1>3, <1>6
  <2>3. after[c].start \in Int /\ after[c].end \in Int /\ s \in Int /\ e \in Int
    BY <1>4, <1>7, <1>8 DEF IsSpan
  <2>4. QED BY <2>1, <2>2, <2>3
<1>10. s \in U /\ e \in U
  <2>1. after[a].start \in after[a].start .. after[a].end /\ after[b].end \in after[b].start .. after[b].end
    BY <1>4 DEF IsSpan
  <2>2. QED BY <1>5, <1>7, <1>8, <2>1
<1>11. U \subseteq Int /\ (\A k \in U : s <= k) /\ \A k \in U : k <= e
  BY <1>9
<1>12. Least(U) = s /\ Greatest(U) = e
  BY <1>10, <1>11, LeastIs, GreatestIs
<1>13. after[m].start = Least(U) /\ after[m].end = Greatest(U)
  BY <1>3, <1>12
<1>14. QED BY <1>13 DEF after, U

\* What is promised of open work.
OpenIsSound(after, effective) ==
  \A n \in Open(after) :
    /\ after[n].start <= after[n].end /\ after[n].end >= effective
    /\ after[n].start < effective => after[n].start = nodes[n].start
    /\ after[n] # nodes[n] =>
         /\ after[n].start >= ScheduleStart /\ after[n].end <= ScheduleLimit
         /\ LET m == after[after[n].milestone]
                days == UNION {after[c].start .. after[c].end : c \in Children(after, after[n].milestone)}
            IN m.start = Least(days) /\ m.end = Greatest(days)

LEMMA OpenIs ==
  ASSUME TypeOK, version > 1, NEW moves \in Moves, NEW effective \in Int, MovesFit(moves, effective),
         NotOverdue(Replanned(moves), effective)
  PROVE  OpenIsSound(Replanned(moves), effective)
<1> DEFINE after == Replanned(moves)
<1> SUFFICES ASSUME NEW n \in Open(after)
             PROVE  /\ after[n].start <= after[n].end /\ after[n].end >= effective
                    /\ after[n].start < effective => after[n].start = nodes[n].start
                    /\ after[n] # nodes[n] =>
                         /\ after[n].start >= ScheduleStart /\ after[n].end <= ScheduleLimit
                         /\ LET m == after[after[n].milestone]
                                days == UNION {after[c].start .. after[c].end : c \in Children(after, after[n].milestone)}
                            IN m.start = Least(days) /\ m.end = Greatest(days)
  BY DEF OpenIsSound
<1>1. n \in Open(nodes) /\ n \in Scheduled(nodes) /\ n \in DOMAIN nodes
  BY SameChildren DEF Open, Scheduled
<1>2. IsSpan(after[n])
  BY <1>1, ReplannedDates
<1>3. after[n].end >= effective
  BY DEF NotOverdue
<1>4. after[n].milestone = nodes[n].milestone
  BY <1>1, ReplannedNodes DEF SameButDates
<1>5. ASSUME after[n] # nodes[n]
      PROVE  /\ after[n].start >= ScheduleStart /\ after[n].end <= ScheduleLimit
             /\ MayStart(n, after[n], effective)
             /\ after[after[n].milestone].start = Least(DaysUnder(after, after[n].milestone))
             /\ after[after[n].milestone].end = Greatest(DaysUnder(after, after[n].milestone))
  <2> DEFINE m == nodes[n].milestone
  <2>1. n \in DOMAIN moves /\ m \in ChangedParents(moves)
    BY <1>1, <1>5, ChangedIsMoved
  <2>2. /\ after[n].start >= ScheduleStart /\ after[n].end <= ScheduleLimit
        /\ MayStart(n, after[n], effective)
    BY <2>1, ReplannedDates
  <2> HIDE DEF m
  <2>3. after[m].start = Least(DaysUnder(after, m)) /\ after[m].end = Greatest(DaysUnder(after, m))
    BY <2>1, StoneAroundTasks
  <2> HIDE DEF after
  <2>4. QED BY <1>4, <2>2, <2>3 DEF m
<1>6. after[n].start < effective => after[n].start = nodes[n].start
  <2>1. CASE after[n] = nodes[n]
    BY <2>1
  <2>2. CASE after[n] # nodes[n]
    <3>1. after[n].start \in Int
      BY <1>2 DEF IsSpan
    <3> HIDE DEF after
    <3>2. QED BY <1>5, <2>2, <3>1 DEF MayStart
  <2>3. QED BY <2>1, <2>2
<1> HIDE DEF after
<1>7. after[n].start <= after[n].end
  BY <1>2 DEF IsSpan
<1>8. QED BY <1>3, <1>5, <1>6, <1>7 DEF DaysUnder

\* Only dates that are not locked and not of finished work are changed.
LEMMA KeepsIs ==
  ASSUME TypeOK, version > 1, NEW moves \in Moves, NEW effective \in Int, MovesFit(moves, effective),
         Prepared(effective), \A m \in ChangedParents(moves) : Unlocked(m, Replanned(moves)[m])
  PROVE  KeepsWhatIsFixed(Replanned(moves))
<1> DEFINE after == Replanned(moves)
           P == ChangedParents(moves)
<1>1. /\ \A n \in DOMAIN nodes : SameButDates(after[n], nodes[n])
      /\ \A n \in DOMAIN nodes \ (DOMAIN moves \cup P) : after[n] = nodes[n]
      /\ \A n \in DOMAIN moves : after[n].start = moves[n].start /\ after[n].end = moves[n].end
  BY ReplannedNodes
<1>2. ASSUME NEW n \in DOMAIN moves, NEW f \in {"start", "end"}, after[n][f] # nodes[n][f]
      PROVE  f \notin nodes[n].manual /\ nodes[n].status # "done" /\ nodes[n].type # "milestone"
  <2>1. n \in Open(nodes) /\ (Moved(n, moves[n]) => Unlocked(n, moves[n]))
    BY DEF MovesFit, MoveFits
  <2>2. nodes[n].status # "done" /\ nodes[n].type # "milestone"
    BY <2>1 DEF Open, Scheduled
  <2> HIDE DEF after
  <2>3. CASE f = "start"
    <3>1. nodes[n].start # moves[n].start
      BY <1>1, <1>2, <2>3
    <3>2. QED BY <2>1, <2>2, <2>3, <3>1 DEF Moved, Unlocked
  <2>4. CASE f = "end"
    <3>1. nodes[n].end # moves[n].end
      BY <1>1, <1>2, <2>4
    <3>2. QED BY <2>1, <2>2, <2>4, <3>1 DEF Moved, Unlocked
  <2>5. QED BY <2>3, <2>4
<1>3. ASSUME NEW m \in P, NEW f \in {"start", "end"}, after[m][f] # nodes[m][f]
      PROVE  /\ f \notin nodes[m].manual /\ nodes[m].status # "done"
             /\ \E c \in Children(nodes, m) : after[c] # nodes[c]
  <2>1. Unlocked(m, after[m])
    OBVIOUS
  <2>2. PICK c \in Children(nodes, m) : c \in DOMAIN moves /\ Moved(c, moves[c])
    BY MovedStones
  <2>3. after[c] # nodes[c]
    BY <1>1, <2>2 DEF Moved
  <2>4. m \in Parents(nodes, Open(nodes))
    BY <2>2, MovedTasks DEF Children, Parents
  <2>5. nodes[m].status # "done"
    BY <2>4 DEF Prepared
  <2>6. f \notin nodes[m].manual
    <3> HIDE DEF after
    <3>1. CASE f = "start"
      BY <1>3, <2>1, <3>1 DEF Unlocked
    <3>2. CASE f = "end"
      BY <1>3, <2>1, <3>2 DEF Unlocked
    <3>3. QED BY <3>1, <3>2
  <2>7. QED BY <2>2, <2>3, <2>5, <2>6
<1> HIDE DEF after, P
<1>4. ASSUME NEW n \in DOMAIN nodes, NEW f \in {"start", "end"}, after[n][f] # nodes[n][f]
      PROVE  /\ f \notin nodes[n].manual /\ nodes[n].status # "done"
             /\ nodes[n].type = "milestone" => \E c \in Children(nodes, n) : after[c] # nodes[c]
  <2>1. n \in DOMAIN moves \/ n \in P
    BY <1>1, <1>4
  <2>2. CASE n \in DOMAIN moves
    BY <1>2, <1>4, <2>2
  <2>3. CASE n \in P
    BY <1>3, <1>4, <2>3
  <2>4. QED BY <2>1, <2>2, <2>3
<1>5. \A n \in DOMAIN nodes : /\ after[n].hours = nodes[n].hours /\ after[n].status = nodes[n].status
                              /\ after[n].manual = nodes[n].manual /\ after[n].milestone = nodes[n].milestone
  BY <1>1 DEF SameButDates
<1>6. KeepsWhatIsFixed(after)
  BY <1>4, <1>5 DEF KeepsWhatIsFixed
<1>7. QED BY <1>6 DEF after

\* Sound, part by part.
WeeksAreSound(after, effective, budget) ==
  \A w \in Weeks : (\E d \in w .. w + WeekDays - 1 : d >= effective) =>
    WeekWork(after, effective, w) <= budget * Scale

TurnsAreSound(after) ==
  \A dep \in Deps : {dep[1], dep[2]} \cap Open(nodes) # {} => AfterByDays(after, dep[1], dep[2])

LEMMA SoundIs ==
  ASSUME NEW after, NEW effective, NEW budget
  PROVE  Sound(after, effective, budget) <=>
           /\ KeepsWhatIsFixed(after) /\ OpenIsSound(after, effective)
           /\ TurnsAreSound(after) /\ WeeksAreSound(after, effective, budget)
  BY Zenon DEF Sound, OpenIsSound, TurnsAreSound, AfterByDays, WeeksAreSound

\* And what the compiler accepts.
LEMMA CompilesIs ==
  ASSUME NEW effective, NEW budget, NEW moves
  PROVE  Compiles(effective, budget, moves) <=>
           /\ MovesFit(moves, effective)
           /\ \A m \in ChangedParents(moves) : Unlocked(m, Replanned(moves)[m])
           /\ NotOverdue(Replanned(moves), effective)
           /\ \A dep \in Deps :
                (dep[1] \in Open(nodes) \/ dep[2] \in Open(nodes)) => InTurn(Replanned(moves), dep[1], dep[2])
           /\ \A w \in Weeks : w + WeekDays - 1 >= effective =>
                Occupied(Replanned(moves), w, w + WeekDays - 1, effective) <= budget * Scale
  BY Zenon DEF Compiles, MovesFit

LEMMA CompiledIsSound ==
  ASSUME TypeOK, version > 1, NEW moves \in Moves, NEW effective \in Int, NEW budget,
         Prepared(effective), Compiles(effective, budget, moves)
  PROVE  Sound(Replanned(moves), effective, budget)
<1> DEFINE after == Replanned(moves)
<1>1. /\ MovesFit(moves, effective) /\ NotOverdue(after, effective)
      /\ \A m \in ChangedParents(moves) : Unlocked(m, after[m])
      /\ \A dep \in Deps : (dep[1] \in Open(nodes) \/ dep[2] \in Open(nodes)) => InTurn(after, dep[1], dep[2])
      /\ \A w \in Weeks : w + WeekDays - 1 >= effective =>
           Occupied(after, w, w + WeekDays - 1, effective) <= budget * Scale
  BY CompilesIs
<1>2. KeepsWhatIsFixed(after)
  BY <1>1, KeepsIs
<1>3. OpenIsSound(after, effective)
  BY <1>1, OpenIs
<1>4. TurnsAreSound(after)
  BY <1>1, TurnIs DEF TurnsAreSound
<1>5. WeeksAreSound(after, effective, budget)
  BY <1>1, WeeksAreOne DEF WeeksAreSound
<1>6. QED BY <1>2, <1>3, <1>4, <1>5, SoundIs

\* The moves of a sound replan are moves the compiler accepts.
LEMMA SoundMoves ==
  ASSUME TypeOK, version > 1, NEW moves \in Moves, NEW effective \in Int,
         Prepared(effective), KeepsWhatIsFixed(Replanned(moves)), OpenIsSound(Replanned(moves), effective)
  PROVE  /\ MovesFit(moves, effective) /\ NotOverdue(Replanned(moves), effective)
         /\ \A m \in ChangedParents(moves) : Unlocked(m, Replanned(moves)[m])
<1> DEFINE after == Replanned(moves)
<1>1. /\ \A n \in DOMAIN nodes : SameButDates(after[n], nodes[n])
      /\ \A n \in DOMAIN moves : after[n].start = moves[n].start /\ after[n].end = moves[n].end
      /\ DOMAIN moves \subseteq Open(nodes) /\ Open(after) = Open(nodes)
  BY ReplannedNodes, MovedTasks, SameChildren
<1>2. ASSUME NEW n \in DOMAIN nodes, NEW f \in {"start", "end"}, after[n][f] # nodes[n][f]
      PROVE  f \notin nodes[n].manual
  BY <1>2 DEF KeepsWhatIsFixed
<1>3. ASSUME NEW n \in Open(nodes)
      PROVE  /\ after[n].start <= after[n].end /\ after[n].end >= effective
             /\ after[n].start < effective => after[n].start = nodes[n].start
             /\ after[n] # nodes[n] => after[n].start >= ScheduleStart /\ after[n].end <= ScheduleLimit
  BY <1>1 DEF OpenIsSound
<1>4. \A m \in ChangedParents(moves) : m \in DOMAIN nodes
  BY MovedStones, PlanNodes
<1>5. \A n \in Open(nodes) : n \in DOMAIN nodes /\ n \in Scheduled(nodes)
  BY DEF Open, Scheduled
<1>6. \A n \in DOMAIN nodes : IsSpan(nodes[n])
  BY PlanNodes
<1>7. \A n \in DOMAIN moves : after[n].start \in Int /\ after[n].end \in Int
  BY <1>1, MovedTasks
<1> HIDE DEF after
<1>8. ASSUME NEW n \in DOMAIN nodes PROVE Unlocked(n, after[n])
  <2>1. nodes[n].start # after[n].start => "start" \notin nodes[n].manual
    BY <1>2
  <2>2. nodes[n].end # after[n].end => "end" \notin nodes[n].manual
    BY <1>2
  <2>3. QED BY <2>1, <2>2 DEF Unlocked
<1>9. NotOverdue(after, effective)
  BY <1>1, <1>3 DEF NotOverdue
<1>10. ASSUME NEW n \in DOMAIN moves PROVE MoveFits(n, moves[n], effective)
  <2>1. n \in Open(nodes) /\ n \in DOMAIN nodes /\ n \in Scheduled(nodes)
    BY <1>1, <1>5
  <2>2. moves[n].start <= moves[n].end /\ moves[n].end >= effective
    BY <1>1, <1>3, <2>1
  <2>3. moves[n].start >= ScheduleStart /\ moves[n].end <= ScheduleLimit
    <3>1. CASE after[n] = nodes[n]
      <4>1. ScheduleStart <= nodes[n].start /\ nodes[n].end <= ScheduleLimit /\ ScheduleStart \in Int
        BY <2>1, ScheduleIs DEF Prepared
      <4>2. nodes[n].start \in Int
        BY <1>6, <2>1 DEF IsSpan
      <4>3. QED BY <1>1, <3>1, <4>1, <4>2
    <3>2. CASE after[n] # nodes[n]
      BY <1>1, <1>3, <2>1, <3>2
    <3>3. QED BY <3>1, <3>2
  <2>4. MayStart(n, moves[n], effective)
    <3>1. after[n].start < effective => after[n].start = nodes[n].start
      BY <1>3, <2>1
    <3>2. after[n].start = moves[n].start /\ after[n].start \in Int
      BY <1>1, <1>7
    <3>3. QED BY <3>1, <3>2 DEF MayStart
  <2>5. Unlocked(n, moves[n])
    BY <1>1, <1>8, <2>1 DEF Unlocked
  <2>6. QED BY <2>1, <2>2, <2>3, <2>4, <2>5 DEF MoveFits
<1>11. MovesFit(moves, effective)
  BY <1>10 DEF MovesFit
<1>12. QED BY <1>4, <1>8, <1>9, <1>11 DEF after

LEMMA SoundCompiles ==
  ASSUME TypeOK, version > 1, NEW moves \in Moves, NEW effective \in Int, NEW budget,
         Prepared(effective), Sound(Replanned(moves), effective, budget)
  PROVE  Compiles(effective, budget, moves)
<1> DEFINE after == Replanned(moves)
<1>1. /\ KeepsWhatIsFixed(after) /\ OpenIsSound(after, effective)
      /\ TurnsAreSound(after) /\ WeeksAreSound(after, effective, budget)
  BY SoundIs
<1>2. /\ MovesFit(moves, effective) /\ NotOverdue(after, effective)
      /\ \A m \in ChangedParents(moves) : Unlocked(m, after[m])
  BY <1>1, SoundMoves
<1>3. \A dep \in Deps : (dep[1] \in Open(nodes) \/ dep[2] \in Open(nodes)) => InTurn(after, dep[1], dep[2])
  BY <1>1, <1>2, TurnIs DEF TurnsAreSound
<1>4. \A w \in Weeks : w + WeekDays - 1 >= effective =>
           Occupied(after, w, w + WeekDays - 1, effective) <= budget * Scale
  BY <1>1, <1>2, WeeksAreOne DEF WeeksAreSound
<1>5. QED BY <1>2, <1>3, <1>4, CompilesIs

-----------------------------------------------------------------------------
(* The theorems.                                                           *)

\* A replan that is compiled is sound.
LEMMA ReplanStep ==
  ASSUME TypeOK, [Next]_vars, last' # last
  PROVE  Sound(nodes', last'.effective, weekly')
<1>1. PICK effective \in Effective, budget \in Budgets, moves \in Moves : Replan(effective, budget, moves)
  BY DEF Next, ConfirmRoute, Edit, Complete, vars
<1>2. /\ Prepared(effective) /\ Compiles(effective, budget, moves) /\ nodes' = Replanned(moves)
      /\ weekly' = budget /\ last'.effective = effective /\ effective \in Int
  BY <1>1, ScheduleBounds DEF Replan
<1>3. version > 1
  BY <1>2 DEF Prepared
<1>4. Sound(Replanned(moves), effective, budget)
  BY <1>2, <1>3, CompiledIsSound
<1>5. QED BY <1>2, <1>4

\* A replan that is confirmed leaves what is done or by hand alone, keeps
\* dependencies and milestones in order and fits the hours of its event.
THEOREM ReplansAreSound == Spec => ReplanIsSound
<1>1. TypeOK /\ [Next]_vars => (last' # last => Sound(nodes', last'.effective, weekly'))
  BY ReplanStep
<1>2. QED BY <1>1, PlanTypeCorrect, PTL DEF Spec, ReplanIsSound

LEMMA NoneRefused == ASSUME TypeOK PROVE NoSoundReplanRefused
<1> SUFFICES ASSUME version \in 2 .. MaxVersion - 1, NEW effective \in Effective, NEW budget \in Budgets,
                    NEW moves \in Moves, Prepared(effective), Sound(Replanned(moves), effective, budget)
             PROVE  Compiles(effective, budget, moves)
  BY DEF NoSoundReplanRefused
<1>1. version > 1 /\ effective \in Int
  BY ScheduleBounds
<1>2. QED BY <1>1, SoundCompiles

\* The compiler refuses no replan whose result would be sound.
THEOREM NoSoundReplanIsRefused == Spec => []NoSoundReplanRefused
<1>1. TypeOK => NoSoundReplanRefused
  BY NoneRefused
<1>2. QED BY <1>1, PlanTypeCorrect, PTL
=============================================================================
