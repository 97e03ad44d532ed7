-------------------------- MODULE PlanEngineProofs --------------------------
(***************************************************************************)
(* Theorems about the plan engine, for any nodes, texts, hours, bodies of  *)
(* requests and baselines.  What a patch does to a plan is the value of a recursive      *)
(* function over its operations: what each operation keeps is carried over *)
(* to all of them by StepsStay.  The walk of hasCycle and the closure of   *)
(* an event's impact are recursions over sets, and end because a plan has  *)
(* finitely many nodes.  The invariant IInv then says that the marks of    *)
(* the user's work agree with what the user has written, and that what     *)
(* waits for a confirmation was made by a rule or follows its own base.    *)
(***************************************************************************)
EXTENDS PlanEngine, DataLemmas

\* What the fields of a node may be.
LEMMA ValuesAre ==
  /\ Values("status") = Statuses /\ Values("milestoneId") = Ids \cup {None}
  /\ Values("adjustmentReason") = Texts \cup {None} /\ Values("type") = NodeTypes
  /\ Values("id") = Ids /\ Values("manualFields") = SUBSET NodeFields
  BY DEF Values

\* Object.assign gives a node again, with the changes in place of what was there.
LEMMA AssignTyped ==
  ASSUME NEW node \in Nodes, NEW c, IsChange(c)
  PROVE  /\ Assign(node, c) \in Nodes
         /\ \A f \in Fields \cup {"manualFields"} :
              Assign(node, c)[f] = IF f \in DOMAIN c THEN c[f] ELSE node[f]
<1>1. DOMAIN node = {"type", "status", "milestoneId", "adjustmentReason", "manualFields"}
  BY DEF Nodes
<1>2. /\ "status" \in DOMAIN c => c["status"] \in Statuses
      /\ "milestoneId" \in DOMAIN c => c["milestoneId"] \in Ids \cup {None}
      /\ "adjustmentReason" \in DOMAIN c => c["adjustmentReason"] \in Texts \cup {None}
      /\ "type" \in DOMAIN c => c["type"] \in NodeTypes
      /\ "manualFields" \in DOMAIN c => c["manualFields"] \in SUBSET NodeFields
  BY ValuesAre DEF IsChange
<1>3. Assign(node, c) \in Nodes
  BY <1>1, <1>2 DEF Assign, Nodes
<1>4. \A f \in Fields \cup {"manualFields"} :
        Assign(node, c)[f] = IF f \in DOMAIN c THEN c[f] ELSE node[f]
  BY <1>1 DEF Assign, Fields
<1>5. QED BY <1>3, <1>4

Plans == PlansOver(UNION {[S -> Nodes] : S \in SUBSET Ids})

\* A plan, part by part.
LEMMA PlanParts ==
  ASSUME NEW p
  PROVE  p \in Plans <=> /\ p = [version |-> p.version, weeklyHours |-> p.weeklyHours, relations |-> p.relations, nodes |-> p.nodes]
         /\ p.version \in Nat \ {0} /\ p.weeklyHours \in Hours /\ p.relations \subseteq Relations
         /\ DOMAIN p.nodes \subseteq Ids /\ p.nodes \in [DOMAIN p.nodes -> Nodes]
<1>1. p.nodes \in UNION {[S -> Nodes] : S \in SUBSET Ids} <=>
         DOMAIN p.nodes \subseteq Ids /\ p.nodes \in [DOMAIN p.nodes -> Nodes]
  OBVIOUS
<1>2. QED
  BY <1>1 DEF Plans, PlansOver

\* None stands for no plan, no node and no status.
LEMMA NoneIsNoPlan == None \notin Plans /\ None \notin Ids /\ None \notin Statuses
  BY EngineConstants DEF Plans

\* IsPlan tests for the set of plans.
LEMMA IsPlanMeans == ASSUME NEW p PROVE IsPlan(p) <=> p \in Plans
<1>1. IsPlan(p) => p \in Plans
  BY DEF IsPlan, Plans, PlansOver
<1>2. p \in Plans => IsPlan(p)
  BY PlanParts DEF IsPlan, PlansOver
<1>3. QED BY <1>1, <1>2

\* A plan with one node replaced, renamed or added.
LEMMA WithTyped ==
  ASSUME NEW p \in Plans, NEW n \in Ids, NEW id \in Ids, NEW node \in Nodes
  PROVE  LET q == With(p, n, id, node)
         IN  /\ q \in Plans
             /\ q.version = p.version /\ q.relations = p.relations /\ q.weeklyHours = p.weeklyHours
             /\ DOMAIN q.nodes = (DOMAIN p.nodes \ {n}) \cup {id}
             /\ q.nodes[id] = node
             /\ \A i \in DOMAIN p.nodes \ {n, id} : q.nodes[i] = p.nodes[i]
  BY PlanParts DEF With, Plans, PlansOver

\* A change leaves a node its id or gives it another.
LEMMA IdAfterTyped ==
  ASSUME NEW n \in Ids, NEW c, IsChange(c)
  PROVE  IdAfter(n, c) \in Ids /\ ("id" \notin DOMAIN c => IdAfter(n, c) = n)
  BY ValuesAre DEF IdAfter, IsChange

-----------------------------------------------------------------------------
(* The walk of hasCycle.                                                   *)

DependenciesIn(R, n) == {r.targetId : r \in {x \in R : x.sourceId = n}}

Visits == Ids \X SUBSET Ids

Walks(R) ==
  LET walk[at \in Ids \X SUBSET Ids] ==
        LET n == at[1] visiting == at[2]
        IN  n \in visiting \/ \E d \in DependenciesIn(R, n) : walk[<<d, visiting \cup {n}>>]
  IN  walk

\* hasCycle asks the walk from each node, having visited none.
LEMMA HasCycleWalks ==
  ASSUME NEW p PROVE HasCycle(p) <=> \E n \in DOMAIN p.nodes : Walks(p.relations)[<<n, {}>>]
  BY DEF HasCycle, Walks, DependsOn, DependenciesIn

\* The walk is the function its definition says it is: the least one, which exists
\* as the set of visits of which every set that is closed under a step has.
LEMMA WalksDef ==
  ASSUME NEW R, R \subseteq Relations
  PROVE  \A n \in Ids, v \in SUBSET Ids :
           Walks(R)[<<n, v>>] <=> (n \in v \/ \E d \in DependenciesIn(R, n) : Walks(R)[<<d, v \cup {n}>>])
<1> DEFINE Back(W, at) == at[1] \in at[2] \/ \E d \in DependenciesIn(R, at[1]) : <<d, at[2] \cup {at[1]}>> \in W
           Closed(W) == \A at \in Visits : Back(W, at) => at \in W
           W0 == {x \in Visits : \A W \in SUBSET Visits : Closed(W) => x \in W}
           Round(walk, at) == at[1] \in at[2] \/ \E d \in DependenciesIn(R, at[1]) : walk[<<d, at[2] \cup {at[1]}>>]
           IsWalk(walk) == walk = [at \in Visits |-> Round(walk, at)]
           w == [at \in Visits |-> at \in W0]
<1>0. \A n \in Ids : DependenciesIn(R, n) \subseteq Ids
  BY DEF DependenciesIn, Relations
<1>1. Closed(W0)
  BY <1>0 DEF Visits
<1>2. ASSUME NEW at \in Visits, at \in W0
      PROVE  Back(W0, at)
  <2> DEFINE W1 == W0 \ {at}
  <2>1. SUFFICES ASSUME ~ Back(W0, at)
                 PROVE  FALSE
    OBVIOUS
  <2>2. Closed(W1)
    BY <1>1, <2>1
  <2>3. W1 \in SUBSET Visits
    OBVIOUS
  <2>4. at \in W1
    BY <1>2, <2>2, <2>3
  <2>5. QED BY <2>4
<1>3. IsWalk(w)
  <2>1. ASSUME NEW at \in Visits
        PROVE  w[at] <=> Round(w, at)
    <3>1. \A d \in DependenciesIn(R, at[1]) : <<d, at[2] \cup {at[1]}>> \in Visits
      BY <1>0 DEF Visits
    <3>2. at \in W0 <=> Back(W0, at)
      BY <1>1, <1>2
    <3> HIDE DEF W0
    <3>3. QED BY <3>1, <3>2
  <2>2. ASSUME NEW at \in Visits PROVE w[at] = Round(w, at)
    <3>1. w[at] \in BOOLEAN
      OBVIOUS
    <3>2. Round(w, at) \in BOOLEAN
      OBVIOUS
    <3>a. w[at] <=> Round(w, at)
      BY <2>1
    <3> HIDE DEF w, Round
    <3>3. QED BY <3>1, <3>2, <3>a
  <2>3. w = [at \in Visits |-> w[at]]
    OBVIOUS
  <2> HIDE DEF w, Round
  <2>4. QED BY <2>2, <2>3, Zenon
<1>4. IsWalk(Walks(R))
  <2>1. Walks(R) = CHOOSE walk : IsWalk(walk)
    BY DEF Walks, Visits
  <2> HIDE DEF IsWalk, w
  <2>2. QED BY <1>3, <2>1, Zenon
<1>5. ASSUME NEW n \in Ids, NEW v \in SUBSET Ids
      PROVE  Walks(R)[<<n, v>>] <=> (n \in v \/ \E d \in DependenciesIn(R, n) : Walks(R)[<<d, v \cup {n}>>])
  <2> DEFINE at == <<n, v>>
  <2>1. at \in Visits /\ at[1] = n /\ at[2] = v
    BY DEF Visits
  <2> HIDE DEF at
  <2>2. Walks(R)[at] <=> Round(Walks(R), at)
    BY <1>4, <2>1, Zenon
  <2>3. QED BY <2>1, <2>2 DEF at
<1>6. QED BY <1>5

\* Where no walk comes back, each set of nodes has one that needs none of them.
LEMMA NoCycleHasStart ==
  ASSUME NEW p \in Plans, ~ HasCycle(p), NEW S \in SUBSET DOMAIN p.nodes, S # {}
  PROVE  \E n \in S : DependsOn(p, n) \cap S = {}
<1> DEFINE R == p.relations
           W == {v \in SUBSET Ids : \E n \in S : ~ Walks(R)[<<n, v>>]}
<1>1. R \subseteq Relations /\ S \subseteq Ids /\ IsFiniteSet(Ids)
  BY PlanParts, EngineConstants, NoneIsNoPlan
<1>2. \A n : DependenciesIn(R, n) = DependsOn(p, n)
  BY DEF DependenciesIn, DependsOn
<1>3. SUFFICES ASSUME \A n \in S : DependsOn(p, n) \cap S # {} PROVE FALSE
  OBVIOUS
<1>4. {} \in W
  BY HasCycleWalks
<1>5. PICK v \in W : \A u \in W : v \subseteq u => u = v
  <2>1. W \subseteq SUBSET Ids /\ W # {}
    BY <1>4
  <2> HIDE DEF W
  <2>2. IsFiniteSet(Ids)
    BY <1>1
  <2>3. QED BY <2>1, <2>2, MaximalSubset
<1>6. PICK n \in S : ~ Walks(R)[<<n, v>>]
  BY <1>5
<1>7. PICK d \in DependsOn(p, n) : d \in S
  BY <1>3
<1>8. n \notin v /\ ~ Walks(R)[<<d, v \cup {n}>>]
  BY <1>1, <1>2, <1>6, <1>7, WalksDef
<1>9. v \cup {n} \in W
  BY <1>1, <1>7, <1>8
<1>10. QED BY <1>5, <1>8, <1>9

-----------------------------------------------------------------------------
(* Patches.                                                                *)

\* The operations there are.
OperationOK(o) ==
  \/ o.op = "add_node" /\ o.node \in Ids /\ o.value \in Nodes
  \/ o.op = "update_node" /\ o.node \in Ids /\ IsChange(o.changes)
  \/ o.op = "archive_node" /\ o.node \in Ids
  \/ o.op = "add_relation" /\ o.relation \in Relations
  \/ o.op = "remove_relation"
  \/ o.op = "set_weekly_hours" /\ o.weeklyHours \in Hours

OperationsOK(s) == Len(s) \in Nat /\ \A k \in 1 .. Len(s) : OperationOK(s[k])

\* Those that change no id and no marks: all but some of the user's edits.
Narrow(o) == o.op = "update_node" => DOMAIN o.changes \subseteq Fields

AllNarrow(s) == \A k \in 1 .. Len(s) : Narrow(s[k])

\* An operation makes a plan of a plan, or refuses; the version waits.
LEMMA StepTyped ==
  ASSUME NEW q \in Plans \cup {None}, NEW origin, NEW o, OperationOK(o)
  PROVE  /\ Step(q, origin, o) \in Plans \cup {None}
         /\ Step(q, origin, o) # None =>
              q \in Plans /\ OpAllowed(q, origin, o) /\ Step(q, origin, o) = ApplyOp(q, origin, o)
              /\ Step(q, origin, o).version = q.version
<1>1. SUFFICES ASSUME q # None, OpAllowed(q, origin, o)
               PROVE  ApplyOp(q, origin, o) \in Plans /\ ApplyOp(q, origin, o).version = q.version
  BY DEF Step
<1>2. q \in Plans
  BY <1>1
<1>3. CASE o.op = "add_node" /\ o.node \in Ids /\ o.value \in Nodes
  BY <1>2, <1>3, WithTyped DEF ApplyOp
<1>4. CASE o.op = "update_node" /\ o.node \in Ids /\ IsChange(o.changes)
  <2> DEFINE node == Assign(q.nodes[o.node], o.changes)
             mark == IF origin = "user" THEN DOMAIN o.changes ELSE {}
             marked == [node EXCEPT !.manualFields = @ \cup mark]
  <2>1. q.nodes[o.node] \in Nodes
    BY <1>1, <1>2, <1>4, PlanParts DEF OpAllowed
  <2>2. node \in Nodes /\ mark \subseteq NodeFields
    BY <1>4, <2>1, AssignTyped DEF IsChange
  <2>3. marked \in Nodes
    <3> HIDE DEF node, mark
    <3>1. QED BY <2>2 DEF Nodes
  <2>4. ApplyOp(q, origin, o) = With(q, o.node, IdAfter(o.node, o.changes), marked)
    BY <1>4 DEF ApplyOp
  <2>5. IdAfter(o.node, o.changes) \in Ids
    BY <1>4, IdAfterTyped
  <2> HIDE DEF marked
  <2>6. QED BY <1>2, <1>4, <2>3, <2>4, <2>5, WithTyped
<1>5. CASE o.op = "archive_node" /\ o.node \in Ids
  <2>1. o.node \in DOMAIN q.nodes
    BY <1>1, <1>5 DEF OpAllowed
  <2>2. ApplyOp(q, origin, o) = [q EXCEPT !.nodes[o.node].status = "archived"]
    BY <1>5 DEF ApplyOp
  <2>3. q.nodes[o.node] \in Nodes /\ "archived" \in Statuses
    BY <1>2, <2>1, PlanParts, EngineConstants, NoneIsNoPlan
  <2>4. [q.nodes[o.node] EXCEPT !.status = "archived"] \in Nodes
    BY <2>3 DEF Nodes
  <2>5. QED BY <1>2, <2>1, <2>2, <2>4, PlanParts DEF Plans, PlansOver
<1>6. CASE o.op = "add_relation" /\ o.relation \in Relations
  <2>1. ApplyOp(q, origin, o) = [q EXCEPT !.relations = @ \cup {o.relation}]
    BY <1>6 DEF ApplyOp
  <2>2. QED BY <1>2, <1>6, <2>1 DEF Plans, PlansOver
<1>7. CASE o.op = "remove_relation"
  <2>1. ApplyOp(q, origin, o) = [q EXCEPT !.relations = @ \ {o.relation}]
    BY <1>7 DEF ApplyOp
  <2>2. QED BY <1>2, <2>1 DEF Plans, PlansOver
<1>8. CASE o.op = "set_weekly_hours" /\ o.weeklyHours \in Hours
  <2>1. ApplyOp(q, origin, o) = [q EXCEPT !.weeklyHours = o.weeklyHours]
    BY <1>8 DEF ApplyOp
  <2>2. QED BY <1>2, <1>8, <2>1 DEF Plans, PlansOver
<1>9. QED BY <1>3, <1>4, <1>5, <1>6, <1>7, <1>8 DEF OperationOK

\* The recursion of Steps is a definition.
LEMMA StepsDef ==
  ASSUME NEW p, NEW origin, NEW operations, Len(operations) \in Nat
  PROVE  \A k \in 0 .. Len(operations) :
           Steps(p, origin, operations)[k] = IF k = 0 THEN p
             ELSE Step(Steps(p, origin, operations)[k - 1], origin, operations[k])
<1> DEFINE n == Len(operations)
           Value(g, k) == IF k = 0 THEN p ELSE Step(g[k - 1], origin, operations[k])
           IsRun(g, m) == g = [k \in 0 .. m |-> Value(g, k)]
           S == {m \in 0 .. n : \E g : IsRun(g, m)}
<1>1. 0 \in S
  <2>1. IsRun([k \in 0 .. 0 |-> p], 0)
    OBVIOUS
  <2> HIDE DEF IsRun
  <2>2. QED BY <2>1
<1>2. ASSUME NEW m \in 0 .. n - 1, m \in S PROVE m + 1 \in S
  <2>1. PICK g : IsRun(g, m)
    BY <1>2
  <2> DEFINE h == [k \in 0 .. m + 1 |-> IF k = m + 1 THEN Value(g, k) ELSE g[k]]
  <2>2. \A k \in 0 .. m : g[k] = Value(g, k)
    BY <2>1
  <2>3. \A k \in 0 .. m + 1 : h[k] = Value(h, k)
    <3> HIDE DEF IsRun
    <3>1. TAKE k \in 0 .. m + 1
    <3>2. CASE k = 0
      BY <2>2, <3>2
    <3>3. CASE k \in 1 .. m
      <4>1. h[k] = g[k] /\ h[k - 1] = g[k - 1]
        BY <3>3
      <4>2. QED BY <2>2, <3>3, <4>1
    <3>4. CASE k = m + 1
      <4>1. h[k] = Value(g, k) /\ h[k - 1] = g[k - 1] /\ k # 0
        BY <3>4
      <4>2. QED BY <4>1
    <3>5. QED BY <3>2, <3>3, <3>4
  <2>4. IsRun(h, m + 1)
    <3>1. h = [k \in 0 .. m + 1 |-> h[k]]
      OBVIOUS
    <3> HIDE DEF h, Value
    <3>2. QED BY <2>3, <3>1, Zenon
  <2>5. m + 1 \in 0 .. n
    OBVIOUS
  <2> HIDE DEF h, IsRun
  <2>6. QED BY <2>4, <2>5
<1>3. n \in S
  <2>1. n \in Nat
    OBVIOUS
  <2> HIDE DEF S, n
  <2>2. 0 .. n \subseteq S
    BY <1>1, <1>2, <2>1, SegmentInduction
  <2>3. QED BY <2>1, <2>2
<1>4. IsRun(Steps(p, origin, operations), n)
  <2>1. Steps(p, origin, operations) = CHOOSE g : IsRun(g, n)
    BY DEF Steps
  <2>2. \E g : IsRun(g, n)
    BY <1>3
  <2> HIDE DEF IsRun
  <2>3. QED BY <2>1, <2>2, Zenon
<1>5. \A k \in 0 .. n : Steps(p, origin, operations)[k] = Value(Steps(p, origin, operations), k)
  <2> HIDE DEF Value, n
  <2>1. QED BY <1>4, Zenon
<1>6. QED BY <1>5

\* What no operation of a patch leads out of, the patch does not lead out of.
LEMMA StepsStay ==
  ASSUME NEW Good, NEW p \in Good, NEW origin, NEW operations, Len(operations) \in Nat,
         \A k \in 1 .. Len(operations) : \A q \in Good : Step(q, origin, operations[k]) \in Good
  PROVE  \A k \in 0 .. Len(operations) : Steps(p, origin, operations)[k] \in Good
<1> DEFINE n == Len(operations)
           after == Steps(p, origin, operations)
           S == {k \in 0 .. n : after[k] \in Good}
<1>1. \A k \in 0 .. n :
        after[k] = IF k = 0 THEN p ELSE Step(after[k - 1], origin, operations[k])
  BY StepsDef
<1> HIDE DEF after
<1>2. 0 \in S
  BY <1>1
<1>3. ASSUME NEW k \in 0 .. n - 1, k \in S PROVE k + 1 \in S
  <2>1. k + 1 \in 1 .. n /\ k + 1 \in 0 .. n /\ k + 1 # 0 /\ (k + 1) - 1 = k
    BY <1>3
  <2>2. after[k + 1] = Step(after[k], origin, operations[k + 1])
    BY <1>1, <2>1
  <2>3. QED BY <1>3, <2>1, <2>2
<1>4. 0 .. n \subseteq S
  <2>1. n \in Nat
    OBVIOUS
  <2> HIDE DEF S, n
  <2>2. QED BY <1>2, <1>3, <2>1, SegmentInduction
<1>5. QED BY <1>4 DEF after

Final(p, origin, operations) == Steps(p, origin, operations)[Len(operations)]

\* A patch makes a plan of a plan, or refuses.
LEMMA FinalTyped ==
  ASSUME NEW p \in Plans, NEW origin, NEW operations, OperationsOK(operations)
  PROVE  LET q == Final(p, origin, operations)
         IN  q # None => q \in Plans /\ q.version = p.version
<1> DEFINE Good == {q \in Plans \cup {None} : q # None => q.version = p.version}
<1>1. p \in Good
  OBVIOUS
<1>2. ASSUME NEW k \in 1 .. Len(operations), NEW q \in Good
      PROVE  Step(q, origin, operations[k]) \in Good
  <2>1. OperationOK(operations[k]) /\ q \in Plans \cup {None}
    BY DEF OperationsOK
  <2>2. /\ Step(q, origin, operations[k]) \in Plans \cup {None}
        /\ Step(q, origin, operations[k]) # None =>
             q \in Plans /\ Step(q, origin, operations[k]).version = q.version
    BY <2>1, StepTyped
  <2>3. Step(q, origin, operations[k]) # None => q # None
    BY EngineConstants, NoneIsNoPlan, <2>2
  <2>4. QED BY <2>2, <2>3
<1>3. Len(operations) \in Nat
  BY DEF OperationsOK
<1> HIDE DEF Good
<1>4. Final(p, origin, operations) \in Good
  BY <1>1, <1>2, <1>3, StepsStay DEF Final
<1>5. QED BY <1>4 DEF Good

\* A valid plan is sound, also when it gets the next version.
LEMMA ValidIsSound ==
  ASSUME NEW q \in Plans, ValidPlan(q)
  PROVE  LET a == [q EXCEPT !.version = @ + 1]
         IN  /\ Sound(a) /\ a \in Plans /\ a.version = q.version + 1
             /\ a.nodes = q.nodes /\ a.relations = q.relations /\ a.weeklyHours = q.weeklyHours
<1> DEFINE a == [q EXCEPT !.version = @ + 1]
<1>1. /\ a \in Plans /\ a.version = q.version + 1
      /\ a.nodes = q.nodes /\ a.relations = q.relations /\ a.weeklyHours = q.weeklyHours
  BY DEF Plans, PlansOver
<1> HIDE DEF a
<1>2. \A S \in SUBSET DOMAIN a.nodes : S # {} => \E n \in S : DependsOn(a, n) \cap S = {}
  <2>1. \A S \in SUBSET DOMAIN q.nodes : S # {} => \E n \in S : DependsOn(q, n) \cap S = {}
    BY NoCycleHasStart DEF ValidPlan
  <2>2. \A n : DependsOn(a, n) = DependsOn(q, n)
    BY <1>1 DEF DependsOn
  <2>3. QED BY <1>1, <2>1, <2>2
<1>3. \A r \in a.relations :
        /\ {r.sourceId, r.targetId} \subseteq DOMAIN a.nodes
        /\ r.hard /\ a.nodes[r.targetId].status # "done" => a.nodes[r.sourceId].status \notin Started
  BY <1>1 DEF ValidPlan, HardDependencyUnmet
<1>4. {a.nodes[n].milestoneId : n \in DOMAIN a.nodes} \subseteq DOMAIN a.nodes \cup {None}
  BY <1>1 DEF ValidPlan
<1>5. Sound(a)
  BY <1>1, <1>2, <1>3, <1>4, IsPlanMeans DEF Sound
<1>6. QED BY <1>1, <1>5 DEF a

\* An applied patch leads to a sound plan of the next version.
LEMMA AppliedIsSound ==
  ASSUME NEW p \in Plans, NEW patch, OperationsOK(patch.operations), ApplyPatch(p, patch) # None
  PROVE  LET q == Final(p, patch.origin, patch.operations)
             a == ApplyPatch(p, patch)
         IN  /\ q # None /\ q \in Plans /\ q.version = p.version
             /\ Sound(a) /\ a \in Plans /\ a.version = p.version + 1 /\ a.nodes = q.nodes
<1> DEFINE q == Final(p, patch.origin, patch.operations)
<1>1. q # None /\ ValidPlan(q) /\ ApplyPatch(p, patch) = [q EXCEPT !.version = @ + 1]
  BY DEF ApplyPatch, Final
<1>2. q \in Plans /\ q.version = p.version
  BY <1>1, FinalTyped
<1> HIDE DEF q
<1>3. QED BY <1>1, <1>2, ValidIsSound DEF q

-----------------------------------------------------------------------------
(* What operations do to the nodes there are.                              *)

\* The node n after an operation that is not refused.
Untouched(q, r, n) == r.nodes[n] = q.nodes[n]

Updated(q, r, n, origin, o) ==
  /\ o.op = "update_node" /\ o.node = n
  /\ origin = "agent" => DOMAIN o.changes \cap q.nodes[n].manualFields = {}
  /\ DOMAIN o.changes \subseteq Fields
  /\ \A f \in Fields : r.nodes[n][f] = IF f \in DOMAIN o.changes THEN o.changes[f] ELSE q.nodes[n][f]
  /\ r.nodes[n].manualFields =
       q.nodes[n].manualFields \cup IF origin = "user" THEN DOMAIN o.changes ELSE {}

Archived(q, r, n, o) ==
  o.op = "archive_node" /\ o.node = n /\ r.nodes[n] = [q.nodes[n] EXCEPT !.status = "archived"]

OnNodes(q, r, origin, o) ==
  /\ DOMAIN q.nodes \subseteq DOMAIN r.nodes
  /\ \A n \in DOMAIN q.nodes :
       Untouched(q, r, n) \/ Updated(q, r, n, origin, o) \/ Archived(q, r, n, o)

\* What an allowed operation that changes no id and no marks does to the nodes.
LEMMA StepOnNodes ==
  ASSUME NEW q \in Plans, NEW origin, NEW o, OperationOK(o), Narrow(o), Step(q, origin, o) # None
  PROVE  OnNodes(q, Step(q, origin, o), origin, o)
<1> DEFINE r == Step(q, origin, o)
<1>1. q # None /\ OpAllowed(q, origin, o) /\ r = ApplyOp(q, origin, o)
  BY EngineConstants, NoneIsNoPlan, StepTyped
<1> SUFFICES OnNodes(q, r, origin, o)
  OBVIOUS
<1> HIDE DEF r
<1>2. CASE o.op = "add_node" /\ o.node \in Ids /\ o.value \in Nodes
  <2>1. o.node \notin DOMAIN q.nodes /\ r = With(q, o.node, o.node, o.value)
    BY <1>1, <1>2 DEF OpAllowed, ApplyOp
  <2>2. QED BY <1>2, <2>1, WithTyped DEF OnNodes, Untouched
<1>3. CASE o.op = "update_node" /\ o.node \in Ids /\ IsChange(o.changes)
  <2> DEFINE old == q.nodes[o.node]
             node == Assign(old, o.changes)
             mark == IF origin = "user" THEN DOMAIN o.changes ELSE {}
             marked == [node EXCEPT !.manualFields = @ \cup mark]
  <2>1. o.node \in DOMAIN q.nodes /\ (origin = "agent" => DOMAIN o.changes \cap old.manualFields = {})
    BY <1>1, <1>3 DEF OpAllowed
  <2>2. old \in Nodes
    BY <2>1, PlanParts
  <2>3. DOMAIN o.changes \subseteq Fields /\ "manualFields" \notin DOMAIN o.changes /\ "id" \notin DOMAIN o.changes
    BY <1>3 DEF Narrow, Fields
  <2>4. /\ node \in Nodes /\ node.manualFields = old.manualFields /\ mark \subseteq NodeFields
        /\ \A f \in Fields : node[f] = IF f \in DOMAIN o.changes THEN o.changes[f] ELSE old[f]
    BY <1>3, <2>2, <2>3, AssignTyped DEF NodeFields
  <2>5. /\ marked \in Nodes /\ marked.manualFields = old.manualFields \cup mark
        /\ \A f \in Fields : marked[f] = node[f]
    <3> HIDE DEF node, mark, old
    <3>1. QED BY <2>4 DEF Nodes, Fields
  <2>6. r = With(q, o.node, o.node, marked)
    BY <1>1, <1>3, <2>3, IdAfterTyped DEF ApplyOp
  <2> HIDE DEF marked
  <2>7. /\ DOMAIN r.nodes = DOMAIN q.nodes
        /\ \A n \in DOMAIN q.nodes : r.nodes[n] = IF n = o.node THEN marked ELSE q.nodes[n]
    <3>1. o.node \in Ids /\ marked \in Nodes
      BY <1>3, <2>5
    <3> HIDE DEF mark, node, old
    <3>2. /\ DOMAIN r.nodes = (DOMAIN q.nodes \ {o.node}) \cup {o.node}
          /\ r.nodes[o.node] = marked
          /\ \A n \in DOMAIN q.nodes \ {o.node} : r.nodes[n] = q.nodes[n]
      BY <2>6, <3>1, WithTyped
    <3>3. QED BY <2>1, <3>2
  <2>8. ASSUME NEW n \in DOMAIN q.nodes, n = o.node PROVE Updated(q, r, n, origin, o)
    <3>1. r.nodes[n] = marked /\ q.nodes[n] = old
      BY <2>7, <2>8
    <3> HIDE DEF old, node
    <3>2. QED BY <1>3, <2>1, <2>3, <2>4, <2>5, <2>8, <3>1 DEF Updated
  <2>9. QED BY <2>7, <2>8 DEF OnNodes, Untouched
<1>4. CASE o.op = "archive_node" /\ o.node \in Ids
  <2>1. o.node \in DOMAIN q.nodes /\ r = [q EXCEPT !.nodes[o.node].status = "archived"]
    BY <1>1, <1>4 DEF OpAllowed, ApplyOp
  <2>2. r.nodes = [q.nodes EXCEPT ![o.node] = [@ EXCEPT !.status = "archived"]]
    BY <2>1 DEF Plans, PlansOver
  <2>3. q.nodes \in [DOMAIN q.nodes -> Nodes]
    BY PlanParts
  <2>4. DOMAIN r.nodes = DOMAIN q.nodes
    BY <2>2
  <2>5. \A n \in DOMAIN q.nodes :
          r.nodes[n] = IF n = o.node THEN [q.nodes[n] EXCEPT !.status = "archived"] ELSE q.nodes[n]
    BY <2>1, <2>2
  <2>6. QED BY <1>4, <2>4, <2>5 DEF OnNodes, Untouched, Archived
<1>5. CASE o.op \in {"add_relation", "remove_relation", "set_weekly_hours"}
  <2>1. r.nodes = q.nodes
    BY <1>1, <1>5 DEF ApplyOp, Plans, PlansOver
  <2>2. QED BY <2>1 DEF OnNodes, Untouched
<1>6. QED BY <1>2, <1>3, <1>4, <1>5 DEF OperationOK, r

\* Nodes and marks are never lost.
Grows(p, q) ==
  \A n \in DOMAIN p.nodes :
    n \in DOMAIN q.nodes /\ p.nodes[n].manualFields \subseteq q.nodes[n].manualFields

\* A patch of such operations removes no node and unmarks no field.
LEMMA FinalGrows ==
  ASSUME NEW p \in Plans, NEW origin, NEW operations, OperationsOK(operations),
         AllNarrow(operations), Final(p, origin, operations) # None
  PROVE  Grows(p, Final(p, origin, operations))
<1> DEFINE Good == {q \in Plans \cup {None} : q # None => Grows(p, q)}
<1>1. p \in Good
  BY DEF Grows
<1>2. ASSUME NEW k \in 1 .. Len(operations), NEW q \in Good
      PROVE  Step(q, origin, operations[k]) \in Good
  <2> DEFINE r == Step(q, origin, operations[k])
  <2>1. OperationOK(operations[k]) /\ Narrow(operations[k])
    BY DEF OperationsOK, AllNarrow
  <2>2. r \in Plans \cup {None} /\ (r # None => q \in Plans)
    BY <2>1, StepTyped
  <2>3. ASSUME r # None PROVE Grows(p, r)
    <3>1. q \in Plans /\ Grows(p, q)
      BY <2>2, <2>3, EngineConstants, NoneIsNoPlan
    <3>2. OnNodes(q, r, origin, operations[k])
      BY <2>1, <2>3, <3>1, StepOnNodes
    <3>3. ASSUME NEW n \in DOMAIN q.nodes
          PROVE  q.nodes[n].manualFields \subseteq r.nodes[n].manualFields
      <4>1. q.nodes[n] \in Nodes
        BY <3>1, PlanParts
      <4>2. CASE Archived(q, r, n, operations[k])
        BY <4>1, <4>2 DEF Archived, Nodes
      <4>3. QED BY <3>2, <4>2 DEF OnNodes, Untouched, Updated
    <3> HIDE DEF r
    <3>4. QED BY <3>1, <3>2, <3>3 DEF Grows, OnNodes
  <2>4. QED BY <2>2, <2>3
<1>3. Len(operations) \in Nat
  BY DEF OperationsOK
<1> HIDE DEF Good
<1>4. Final(p, origin, operations) \in Good
  BY <1>1, <1>2, <1>3, StepsStay DEF Final
<1>5. QED BY <1>4 DEF Good

\* q has all that the user has written in p.
KeepsMarked(p, q) ==
  \A n \in DOMAIN p.nodes :
    /\ n \in DOMAIN q.nodes
    /\ q.nodes[n].manualFields = p.nodes[n].manualFields
    /\ \A f \in Fields \cap p.nodes[n].manualFields : q.nodes[n][f] = p.nodes[n][f]

\* An agent's patch that archives only nodes nobody has written leaves alone
\* what the user has written.
LEMMA AgentKeepsMarked ==
  ASSUME NEW p \in Plans, NEW operations, OperationsOK(operations), AllNarrow(operations),
         \A k \in 1 .. Len(operations) : operations[k].op = "archive_node" =>
           operations[k].node \in DOMAIN p.nodes /\ p.nodes[operations[k].node].manualFields = {},
         Final(p, "agent", operations) # None
  PROVE  KeepsMarked(p, Final(p, "agent", operations))
<1> DEFINE Good == {q \in Plans \cup {None} : q # None => KeepsMarked(p, q)}
<1>1. p \in Good
  BY DEF KeepsMarked
<1>2. ASSUME NEW k \in 1 .. Len(operations), NEW q \in Good
      PROVE  Step(q, "agent", operations[k]) \in Good
  <2> DEFINE o == operations[k]
             r == Step(q, "agent", o)
  <2>1. OperationOK(o) /\ Narrow(o)
    BY DEF OperationsOK, AllNarrow
  <2>2. r \in Plans \cup {None} /\ (r # None => q \in Plans)
    BY <2>1, StepTyped
  <2>3. ASSUME r # None PROVE KeepsMarked(p, r)
    <3>1. q \in Plans /\ KeepsMarked(p, q)
      BY <2>2, <2>3, EngineConstants, NoneIsNoPlan
    <3>2. OnNodes(q, r, "agent", o)
      BY <2>1, <2>3, <3>1, StepOnNodes
    <3>3. o.op = "archive_node" => o.node \in DOMAIN p.nodes /\ p.nodes[o.node].manualFields = {}
      OBVIOUS
    <3> HIDE DEF r, o
    <3>4. ASSUME NEW n \in DOMAIN p.nodes
          PROVE  /\ r.nodes[n].manualFields = p.nodes[n].manualFields
                 /\ \A f \in Fields \cap p.nodes[n].manualFields : r.nodes[n][f] = p.nodes[n][f]
      <4>1. n \in DOMAIN q.nodes /\ q.nodes[n] \in Nodes /\ q.nodes[n].manualFields = p.nodes[n].manualFields
        BY <3>1, PlanParts DEF KeepsMarked
      <4>2. \A f \in Fields \cap p.nodes[n].manualFields : q.nodes[n][f] = p.nodes[n][f]
        BY <3>1 DEF KeepsMarked
      <4>3. CASE Untouched(q, r, n)
        BY <4>1, <4>2, <4>3 DEF Untouched
      <4>4. CASE Updated(q, r, n, "agent", o)
        BY <4>1, <4>2, <4>4 DEF Updated
      <4>5. CASE Archived(q, r, n, o)
        <5>1. p.nodes[n].manualFields = {}
          BY <3>3, <4>5 DEF Archived
        <5>2. r.nodes[n].manualFields = q.nodes[n].manualFields
          BY <4>1, <4>5 DEF Archived, Nodes
        <5>3. QED BY <4>1, <5>1, <5>2
      <4>6. QED BY <3>2, <4>1, <4>3, <4>4, <4>5 DEF OnNodes
    <3>5. QED BY <3>1, <3>2, <3>4 DEF KeepsMarked, OnNodes
  <2>4. QED BY <2>2, <2>3
<1>3. Len(operations) \in Nat
  BY DEF OperationsOK
<1> HIDE DEF Good
<1>4. Final(p, "agent", operations) \in Good
  BY <1>1, <1>2, <1>3, StepsStay DEF Final
<1>5. QED BY <1>4 DEF Good

\* q has the nodes of p that were done or archived as they were.
KeepsClosed(p, q) ==
  \A n \in DOMAIN p.nodes :
    p.nodes[n].status \in {"done", "archived"} => n \in DOMAIN q.nodes /\ q.nodes[n] = p.nodes[n]

\* So does a patch that names none of them.
LEMMA ChatKeepsClosed ==
  ASSUME NEW p \in Plans, NEW operations, OperationsOK(operations), AllNarrow(operations),
         \A k \in 1 .. Len(operations) : operations[k].op \in {"update_node", "archive_node"} =>
           p.nodes[operations[k].node].status \notin {"done", "archived"},
         Final(p, "agent", operations) # None
  PROVE  KeepsClosed(p, Final(p, "agent", operations))
<1> DEFINE Good == {q \in Plans \cup {None} : q # None => KeepsClosed(p, q)}
<1>1. p \in Good
  BY DEF KeepsClosed
<1>2. ASSUME NEW k \in 1 .. Len(operations), NEW q \in Good
      PROVE  Step(q, "agent", operations[k]) \in Good
  <2> DEFINE o == operations[k]
             r == Step(q, "agent", o)
  <2>1. OperationOK(o) /\ Narrow(o)
    BY DEF OperationsOK, AllNarrow
  <2>2. r \in Plans \cup {None} /\ (r # None => q \in Plans)
    BY <2>1, StepTyped
  <2>3. ASSUME r # None PROVE KeepsClosed(p, r)
    <3>1. q \in Plans /\ KeepsClosed(p, q)
      BY <2>2, <2>3, EngineConstants, NoneIsNoPlan
    <3>2. OnNodes(q, r, "agent", o)
      BY <2>1, <2>3, <3>1, StepOnNodes
    <3>3. o.op \in {"update_node", "archive_node"} => p.nodes[o.node].status \notin {"done", "archived"}
      OBVIOUS
    <3> HIDE DEF r, o
    <3>4. ASSUME NEW n \in DOMAIN p.nodes, p.nodes[n].status \in {"done", "archived"}
          PROVE  n \in DOMAIN r.nodes /\ r.nodes[n] = p.nodes[n]
      <4>1. n \in DOMAIN q.nodes /\ q.nodes[n] = p.nodes[n]
        BY <3>1, <3>4 DEF KeepsClosed
      <4>2. Untouched(q, r, n)
        BY <3>2, <3>3, <3>4, <4>1 DEF OnNodes, Updated, Archived
      <4>3. QED BY <3>2, <4>1, <4>2 DEF OnNodes, Untouched
    <3>5. QED BY <3>4 DEF KeepsClosed
  <2>4. QED BY <2>2, <2>3
<1>3. Len(operations) \in Nat
  BY DEF OperationsOK
<1> HIDE DEF Good
<1>4. Final(p, "agent", operations) \in Good
  BY <1>1, <1>2, <1>3, StepsStay DEF Final
<1>5. QED BY <1>4 DEF Good

-----------------------------------------------------------------------------
(* The view.                                                               *)

\* In every plan each node is in one group, or in none and outside of them.
LEMMA ViewIsPartition == ViewShowsEachOnce
<1> DEFINE M == {m \in Active(plan) : plan.nodes[m].type = "milestone"}
           Tasks(m) == {n \in Active(plan) : plan.nodes[n].type = "task" /\ plan.nodes[n].milestoneId = m}
           In(n) == {m \in M : n = m \/ n \in Tasks(m)}
<1>1. /\ DOMAIN Groups(plan) = M
      /\ \A m \in M : Groups(plan)[m] = Tasks(m)
  BY DEF Groups
<1>2. ASSUME NEW n \in Active(plan)
      PROVE  {m \in DOMAIN Groups(plan) : n = m \/ n \in Groups(plan)[m]} = In(n)
  BY <1>1
<1>3. ASSUME NEW n \in Active(plan) PROVE n \in Ungrouped(plan) <=> In(n) = {}
  BY <1>1 DEF Ungrouped
<1>4. ASSUME NEW n \in Active(plan), NEW m \in In(n) PROVE In(n) = {m}
  <2>1. CASE plan.nodes[n].type = "milestone"
    BY <1>4, <2>1
  <2>2. CASE plan.nodes[n].type # "milestone"
    BY <1>4, <2>2
  <2>3. QED BY <2>1, <2>2
<1> HIDE DEF In
<1>5. ASSUME NEW n \in Active(plan)
      PROVE  Cardinality(In(n)) + (IF n \in Ungrouped(plan) THEN 1 ELSE 0) = 1
  <2>1. CASE In(n) = {}
    BY <1>3, <2>1, FS_EmptySet
  <2>2. CASE In(n) # {}
    <3>1. PICK m \in In(n) : TRUE
      BY <2>2
    <3>2. In(n) = {m}
      BY <1>4, <3>1
    <3>3. Cardinality(In(n)) = 1
      BY <3>2, FS_Singleton
    <3>4. QED BY <1>3, <2>2, <3>3
  <2>3. QED BY <2>1, <2>2
<1>6. QED BY <1>2, <1>5 DEF ViewShowsEachOnce

-----------------------------------------------------------------------------
(* The impact of an event.                                                 *)

\* The nodes S leads to: those of every set that has S and its dependents.
Reached(p, S) ==
  {n \in Ids : \A C \in SUBSET Ids : S \cup Dependents(p, C) \subseteq C => n \in C}

\* The search of calculateImpact ends, and finds them.
LEMMA SpreadReaches ==
  ASSUME NEW p, p.relations \subseteq Relations, NEW S \in SUBSET Ids
  PROVE  Spread(p, S) = Reached(p, S)
<1> DEFINE found(R) == R \cup Dependents(p, R)
           Value(g, R) == IF found(R) = R THEN R ELSE g[found(R)]
           IsSearch(g) == g = [R \in SUBSET Ids |-> Value(g, R)]
           closure == [R \in SUBSET Ids |-> Reached(p, R)]
           round == CHOOSE g : IsSearch(g)
<1>1. \A R \in SUBSET Ids : Dependents(p, R) \subseteq Ids
  BY DEF Dependents, Relations
<1>2. \A C, R \in SUBSET Ids : R \subseteq C => Dependents(p, R) \subseteq Dependents(p, C)
  BY DEF Dependents
<1>3. ASSUME NEW R \in SUBSET Ids, found(R) = R PROVE Reached(p, R) = R
  <2>1. R \cup Dependents(p, R) \subseteq R
    BY <1>3
  <2>2. QED BY <2>1 DEF Reached
<1>4. ASSUME NEW R \in SUBSET Ids PROVE Reached(p, R) = Reached(p, found(R))
  <2>1. ASSUME NEW C \in SUBSET Ids
        PROVE  R \cup Dependents(p, C) \subseteq C <=> found(R) \cup Dependents(p, C) \subseteq C
    BY <1>2
  <2> HIDE DEF found
  <2>2. QED BY <2>1 DEF Reached
<1>5. IsSearch(closure)
  <2>1. ASSUME NEW R \in SUBSET Ids PROVE closure[R] = Value(closure, R)
    <3>1. found(R) \in SUBSET Ids
      BY <1>1
    <3> HIDE DEF found
    <3>2. QED BY <1>3, <1>4, <3>1
  <2>2. closure = [R \in SUBSET Ids |-> closure[R]]
    OBVIOUS
  <2> HIDE DEF closure, Value
  <2>3. QED BY <2>1, <2>2, Zenon
<1>6. IsSearch(round)
  <2> HIDE DEF IsSearch, closure
  <2>1. QED BY <1>5, Zenon
<1>7. ASSUME NEW R \in SUBSET Ids PROVE round[R] = Value(round, R)
  <2> HIDE DEF round, Value
  <2>1. QED BY <1>6, Zenon
<1>8. ASSUME NEW R \in SUBSET Ids PROVE round[R] = Reached(p, R)
  <2> DEFINE W == {X \in SUBSET Ids : round[X] # Reached(p, X)}
  <2>1. SUFFICES ASSUME W # {} PROVE FALSE
    OBVIOUS
  <2>2. PICK X \in W : \A Y \in W : X \subseteq Y => Y = X
    <3>1. W \subseteq SUBSET Ids /\ IsFiniteSet(Ids)
      BY EngineConstants, NoneIsNoPlan
    <3> HIDE DEF W
    <3>2. QED BY <2>1, <3>1, MaximalSubset
  <2>3. found(X) \in SUBSET Ids /\ X \subseteq found(X)
    BY <1>1
  <2> HIDE DEF found, round
  <2>4. found(X) # X
    BY <1>3, <1>7
  <2>5. round[X] = round[found(X)] /\ Reached(p, X) = Reached(p, found(X))
    BY <1>4, <1>7, <2>4
  <2>6. found(X) \in W
    BY <2>3, <2>5
  <2>7. QED BY <2>2, <2>3, <2>4, <2>6
<1>9. Spread(p, S) = round[S]
  BY DEF Spread
<1>10. QED BY <1>8, <1>9

\* So what ImpactIsClosure says holds in every plan.
LEMMA ImpactOfPlan ==
  ASSUME plan \in Plans PROVE ImpactIsClosure
<1>1. SUFFICES ASSUME NEW e \in Events, ValidEvent(e, plan)
               PROVE  LET i == Impact(plan, e)
                          core == Reached(plan, Seeds(plan, e))
                      IN  /\ core \subseteq i.affected
                          /\ \A m \in i.affected \ core :
                               \E n \in OpenTasks(plan) \cup Active(plan) :
                                 n \in core /\ plan.nodes[n].milestoneId = m
                          /\ OpenTasks(plan) \subseteq i.reschedule \cup i.unaffected
                          /\ i.reschedule \cap i.unaffected = {}
  BY DEF ImpactIsClosure, Reached
<1> DEFINE core == Reached(plan, Seeds(plan, e))
           affected == core \cup {plan.nodes[n].milestoneId :
                         n \in {i \in Active(plan) \cap core : plan.nodes[i].type = "task"
                                                               /\ plan.nodes[i].milestoneId # None}}
<1>2. Seeds(plan, e) \in SUBSET Ids /\ plan.relations \subseteq Relations
  <2>1. DOMAIN plan.nodes \subseteq Ids /\ plan.relations \subseteq Relations
    BY PlanParts
  <2>2. OpenTasks(plan) \subseteq DOMAIN plan.nodes
    BY DEF OpenTasks, Active
  <2>3. e.targetNodeIds \subseteq DOMAIN plan.nodes
    BY <1>1 DEF ValidEvent
  <2>4. QED BY <2>1, <2>2, <2>3 DEF Seeds
<1>3. Affected(plan, e) = affected
  BY <1>2, SpreadReaches DEF Affected
<1>4. /\ Impact(plan, e).affected = affected
      /\ Impact(plan, e).reschedule = OpenTasks(plan) \cap affected
      /\ Impact(plan, e).unaffected = Active(plan) \ affected
  BY <1>3 DEF Impact
<1>5. OpenTasks(plan) \subseteq Active(plan)
  BY DEF OpenTasks
<1> HIDE DEF core
<1>6. QED BY <1>4, <1>5 DEF core

-----------------------------------------------------------------------------
(* The operations the requests make.                                       *)

\* The operations a model may ask for are well-formed, and what the chat lets
\* through of them changes no id and no marks.
LEMMA ChatOperationsOK ==
  ASSUME NEW o \in Operations
  PROVE  OperationOK(o) /\ \A p : ChatMay(p, o) => Narrow(o)
<1> DEFINE updates == {Update(n, c) : n \in Ids, c \in Changes}
           archivings == {ArchiveNode(n) : n \in Ids}
           additions == {AddNode(n, node) : n \in Ids, node \in NewNodes}
           links == {AddRelation(r) : r \in Links}
           unlinks == {RemoveRelation(r) : r \in Links}
           hours == {SetHours(h) : h \in Hours}
<1>1. ASSUME o \in updates PROVE OperationOK(o)
  BY <1>1, EngineConstants, NoneIsNoPlan DEF Update, OperationOK
<1>2. ASSUME o \in archivings PROVE OperationOK(o)
  BY <1>2 DEF ArchiveNode, OperationOK
<1>3. ASSUME o \in additions PROVE OperationOK(o)
  BY <1>3, EngineConstants, NoneIsNoPlan DEF AddNode, OperationOK
<1>4. ASSUME o \in links PROVE OperationOK(o)
  BY <1>4, EngineConstants, NoneIsNoPlan DEF AddRelation, OperationOK
<1>5. ASSUME o \in unlinks PROVE OperationOK(o)
  BY <1>5 DEF RemoveRelation, OperationOK
<1>6. ASSUME o \in hours PROVE OperationOK(o)
  BY <1>6 DEF SetHours, OperationOK
<1>7. Operations = updates \cup archivings \cup additions \cup links \cup unlinks \cup hours
  BY DEF Operations
<1>8. \A p : ChatMay(p, o) => Narrow(o)
  BY DEF ChatMay, Narrow
<1> HIDE DEF updates, archivings, additions, links, unlinks, hours
<1>9. QED BY <1>1, <1>2, <1>3, <1>4, <1>5, <1>6, <1>7, <1>8

\* What the rules for events propose: fields of nodes, and weekly hours.
RuleOperations(s) ==
  /\ OperationsOK(s) /\ AllNarrow(s)
  /\ \A k \in 1 .. Len(s) : s[k].op \in {"update_node", "set_weekly_hours"}

\* So are the updates a rule makes of each of some nodes.
LEMMA UpdatesOfRules ==
  ASSUME NEW S \in SUBSET Ids, NEW c, IsChange(c), DOMAIN c \subseteq Fields
  PROVE  LET order == SetToSeq(S)
             s == [i \in 1 .. Len(order) |-> Update(order[i], c)]
         IN  IsSeq(s) /\ RuleOperations(s)
<1> DEFINE order == SetToSeq(S)
           s == [i \in 1 .. Len(order) |-> Update(order[i], c)]
<1>1. IsFiniteSet(S)
  BY EngineConstants, NoneIsNoPlan, FS_Subset
<1>2. IsSeq(order) /\ ToSet(order) = S
  BY <1>1, SetToSeqPlaces
<1>3. Len(order) \in Nat /\ DOMAIN order = 1 .. Len(order)
  BY <1>2, SeqPlaces
<1>4. \A i \in 1 .. Len(order) : order[i] \in Ids
  BY <1>2, <1>3 DEF ToSet
<1> HIDE DEF order
<1>5. IsSeq(s) /\ Len(s) = Len(order)
  BY <1>3, PlacesMakeSeq
<1>6. RuleOperations(s)
  BY <1>3, <1>4, <1>5 DEF RuleOperations, OperationsOK, OperationOK, AllNarrow, Narrow, Update
<1>7. QED BY <1>5, <1>6 DEF order

\* And all that a rule proposes for an event.
LEMMA EventOperationsOK ==
  ASSUME NEW p \in Plans, NEW e \in Events, ValidEvent(e, p), NEW s \in EventOperations(p, e)
  PROVE  RuleOperations(s)
<1> DEFINE updates(S, changes) ==
             LET order == SetToSeq(S) IN [i \in 1 .. Len(order) |-> Update(order[i], changes)]
           reason(t) == [adjustmentReason |-> t]
           unnoted == {n \in Impact(p, e).reschedule :
                         "adjustmentReason" \notin p.nodes[n].manualFields}
<1> DEFINE Made(t, h) ==
             CASE e.type = "constraint_changed" -> <<SetHours(h)>> \o updates(unnoted, reason(t))
               [] e.type = "task_completed" ->
                    updates(e.targetNodeIds, [status |-> "done", adjustmentReason |-> t])
               [] e.type = "custom" -> updates(e.targetNodeIds, reason(t))
               [] OTHER -> <<>>
<1>0. EventOperations(p, e) = {Made(t, h) : t \in Texts, h \in Hours}
  BY DEF EventOperations
<1>1. PICK t \in Texts, h \in Hours : s = Made(t, h)
  <2> HIDE DEF Made
  <2>1. QED BY <1>0
<1>2. unnoted \in SUBSET Ids /\ e.targetNodeIds \in SUBSET Ids
  <2>1. OpenTasks(p) \subseteq Ids
    BY PlanParts DEF OpenTasks, Active
  <2>2. Impact(p, e).reschedule \subseteq OpenTasks(p)
    BY DEF Impact
  <2>3. QED BY <2>1, <2>2 DEF Events
<1>3. /\ IsChange(reason(t)) /\ DOMAIN reason(t) \subseteq Fields
      /\ IsChange([status |-> "done", adjustmentReason |-> t])
      /\ DOMAIN [status |-> "done", adjustmentReason |-> t] \subseteq Fields
  <2>1. t \in Texts \cup {None} /\ "done" \in Statuses
    BY EngineConstants, NoneIsNoPlan
  <2>2. QED BY <2>1, ValuesAre DEF IsChange, Fields, NodeFields
<1>4. ASSUME NEW S \in SUBSET Ids, NEW c, IsChange(c), DOMAIN c \subseteq Fields
      PROVE  IsSeq(updates(S, c)) /\ RuleOperations(updates(S, c))
  BY <1>4, UpdatesOfRules
<1> HIDE DEF updates, unnoted, reason
<1>5. CASE e.type = "constraint_changed"
  <2> DEFINE u == updates(unnoted, reason(t))
             one == <<SetHours(h)>>
  <2>1. IsSeq(u) /\ RuleOperations(u)
    BY <1>2, <1>3, <1>4
  <2>2. s = one \o u
    BY <1>1, <1>5
  <2>3. IsSeq(one) /\ Len(one) = 1 /\ one[1] = SetHours(h)
    BY DEF IsSeq, ToSet
  <2> HIDE DEF u, one
  <2>a. /\ IsSeq(one \o u)
        /\ Len(one \o u) = Len(one) + Len(u)
        /\ \A i \in 1 .. Len(one) : (one \o u)[i] = one[i]
        /\ \A i \in 1 .. Len(u) : (one \o u)[Len(one) + i] = u[i]
    <3>1. IsSeq(one) /\ IsSeq(u)
      BY <2>1, <2>3
    <3>2. QED BY <3>1, ConcatPlaces
  <2>4. /\ Len(s) = 1 + Len(u) /\ s[1] = SetHours(h)
        /\ \A i \in 1 .. Len(u) : s[1 + i] = u[i]
    BY <2>2, <2>3, <2>a
  <2>5. OperationOK(SetHours(h)) /\ Narrow(SetHours(h)) /\ SetHours(h).op = "set_weekly_hours"
    BY DEF SetHours, OperationOK, Narrow
  <2>6. ASSUME NEW k \in 1 .. Len(s)
        PROVE  /\ OperationOK(s[k]) /\ Narrow(s[k])
               /\ s[k].op \in {"update_node", "set_weekly_hours"}
    <3>1. CASE k = 1
      BY <2>4, <2>5, <3>1
    <3>2. CASE k # 1
      <4>1. Len(u) \in Nat
        BY <2>1, SeqPlaces
      <4>2. k - 1 \in 1 .. Len(u) /\ 1 + (k - 1) = k
        BY <2>4, <3>2, <4>1
      <4>3. s[k] = u[k - 1]
        BY <2>4, <4>2
      <4>4. QED BY <2>1, <4>2, <4>3 DEF RuleOperations, OperationsOK, AllNarrow
    <3>3. QED BY <3>1, <3>2
  <2>7. Len(s) \in Nat
    BY <2>1, <2>4, SeqPlaces
  <2>8. QED BY <2>6, <2>7 DEF RuleOperations, OperationsOK, AllNarrow
<1>6. CASE e.type = "task_completed"
  BY <1>1, <1>2, <1>3, <1>4, <1>6
<1>7. CASE e.type = "custom"
  BY <1>1, <1>2, <1>3, <1>4, <1>7
<1>8. CASE e.type \notin {"constraint_changed", "task_completed", "custom"}
  <2>1. s = <<>>
    BY <1>1, <1>8
  <2>2. QED BY <2>1 DEF RuleOperations, OperationsOK, AllNarrow
<1>9. QED BY <1>5, <1>6, <1>7, <1>8

-----------------------------------------------------------------------------
(* The inductive invariant.                                                *)

\* What is the user's is marked: the engine's own record of it, which his edits
\* may change and rename, agrees with the history.
MarksInv ==
  /\ typed \subseteq Ids \X NodeFields
  /\ \A x \in typed : x[1] \in DOMAIN plan.nodes /\ x[2] \in plan.nodes[x[1]].manualFields

\* What waits is a rule's patch, whenever it was made, or a plan that follows
\* the version it was made for and keeps the user's work of that version.
DraftInv ==
  draft # None =>
    \/ /\ draft.kind = "event" /\ draft.patch.origin = "agent"
       /\ RuleOperations(draft.patch.operations)
    \/ /\ draft.kind = "chat" /\ Sound(draft.preview)
       /\ draft.baseVersion \in Nat /\ draft.baseVersion <= plan.version
       /\ draft.preview.version = draft.baseVersion + 1
       /\ draft.baseVersion = plan.version =>
            KeepsMarked(plan, draft.preview) /\ KeepsClosed(plan, draft.preview)

IInv == PlanIsSound /\ MarksInv /\ DraftInv

\* A patch of one operation is that operation.
LEMMA FinalOfOne ==
  ASSUME NEW p, NEW origin, NEW o
  PROVE  Final(p, origin, <<o>>) = Step(p, origin, o)
<1> DEFINE s == <<o>>
<1>1. Len(s) = 1 /\ Len(s) \in Nat /\ s[1] = o
  OBVIOUS
<1> HIDE DEF s
<1>2. \A k \in 0 .. 1 : Steps(p, origin, s)[k] =
        IF k = 0 THEN p ELSE Step(Steps(p, origin, s)[k - 1], origin, s[k])
  BY <1>1, StepsDef
<1>3. Steps(p, origin, s)[1] = Step(Steps(p, origin, s)[0], origin, s[1]) /\ Steps(p, origin, s)[0] = p
  BY <1>2
<1>4. QED BY <1>1, <1>3 DEF Final, s

\* By the invariant the plan is one.
LEMMA PlanIsPlan == ASSUME IInv PROVE plan \in Plans /\ plan # None /\ plan.version \in Nat \ {0}
<1>1. plan \in Plans
  BY IsPlanMeans DEF IInv, PlanIsSound, Sound
<1>2. QED BY <1>1, NoneIsNoPlan, PlanParts

\* What a patch that is committed makes of the plan.
LEMMA Committed ==
  ASSUME IInv, NEW patch, OperationsOK(patch.operations), Commit(patch)
  PROVE  LET q == Final(plan, patch.origin, patch.operations)
         IN  /\ q # None /\ q \in Plans /\ plan'.nodes = q.nodes
             /\ plan' \in Plans /\ Sound(plan') /\ plan'.version = plan.version + 1
             /\ AllNarrow(patch.operations) => Grows(plan, plan')
<1> DEFINE q == Final(plan, patch.origin, patch.operations)
<1>1. plan \in Plans /\ ApplyPatch(plan, patch) # None /\ plan' = ApplyPatch(plan, patch)
  BY PlanIsPlan DEF Commit
<1>2. /\ q # None /\ q \in Plans
      /\ Sound(plan') /\ plan' \in Plans /\ plan'.version = plan.version + 1 /\ plan'.nodes = q.nodes
  BY <1>1, AppliedIsSound
<1>3. AllNarrow(patch.operations) => Grows(plan, q)
  BY <1>1, <1>2, FinalGrows
<1>4. AllNarrow(patch.operations) => Grows(plan, plan')
  BY <1>2, <1>3 DEF Grows
<1> HIDE DEF q
<1>5. QED BY <1>2, <1>4 DEF q

\* What waits is not for the version a change leads to.
LEMMA DraftWaits ==
  ASSUME IInv, plan'.version = plan.version + 1, UNCHANGED draft
  PROVE  DraftInv'
<1>1. plan.version \in Nat
  BY PlanIsPlan
<1>2. SUFFICES ASSUME draft # None, draft.kind = "chat", Sound(draft.preview),
                      draft.baseVersion \in Nat, draft.baseVersion <= plan.version,
                      draft.preview.version = draft.baseVersion + 1
               PROVE  draft.baseVersion <= plan'.version /\ draft.baseVersion # plan'.version
  BY Zenon DEF IInv, DraftInv
<1>3. QED BY <1>1, <1>2

\* What was the user's stays marked where marks are not lost.
LEMMA MarksStay ==
  ASSUME IInv, Grows(plan, plan'),
         typed' \subseteq Ids \X NodeFields,
         \A x \in typed' \ typed : x[1] \in DOMAIN plan'.nodes /\ x[2] \in plan'.nodes[x[1]].manualFields
  PROVE  MarksInv'
<1>1. ASSUME NEW x \in typed' PROVE x[1] \in DOMAIN plan'.nodes /\ x[2] \in plan'.nodes[x[1]].manualFields
  <2>1. CASE x \in typed
    <3>1. x[1] \in DOMAIN plan.nodes /\ x[2] \in plan.nodes[x[1]].manualFields
      BY <2>1 DEF IInv, MarksInv
    <3>2. QED BY <3>1 DEF Grows
  <2>2. CASE x \notin typed
    BY <2>2
  <2>3. QED BY <2>1, <2>2
<1>2. QED BY <1>1 DEF MarksInv

\* The three parts after a change that leaves what waits alone.
LEMMA ChangeKeeps ==
  ASSUME IInv, Sound(plan'), plan'.version = plan.version + 1, MarksInv', UNCHANGED draft
  PROVE  IInv'
<1>1. PlanIsSound'
  BY DEF IInv, PlanIsSound
<1>2. QED BY <1>1, DraftWaits DEF IInv

LEMMA TypedIs == ASSUME IInv PROVE typed \subseteq Ids \X NodeFields
  BY DEF IInv, MarksInv

\* An edit by the user changes one node, and marks in it what it names, after
\* the marks it brings.
LEMMA StepEdit ==
  ASSUME NEW q \in Plans, NEW n \in Ids, NEW c, IsChange(c),
         Step(q, "user", Update(n, c)) # None
  PROVE  LET r == Step(q, "user", Update(n, c))
             id == IdAfter(n, c)
             base == IF "manualFields" \in DOMAIN c THEN c["manualFields"] ELSE q.nodes[n].manualFields
         IN  /\ n \in DOMAIN q.nodes /\ id \in Ids /\ id \notin DOMAIN q.nodes \ {n}
             /\ DOMAIN r.nodes = (DOMAIN q.nodes \ {n}) \cup {id}
             /\ \A i \in DOMAIN q.nodes \ {n} : r.nodes[i] = q.nodes[i]
             /\ r.nodes[id].manualFields = base \cup DOMAIN c
<1> DEFINE r == Step(q, "user", Update(n, c))
           id == IdAfter(n, c)
           node == Assign(q.nodes[n], c)
           marked == [node EXCEPT !.manualFields = @ \cup DOMAIN c]
<1>1. OpAllowed(q, "user", Update(n, c)) /\ r = ApplyOp(q, "user", Update(n, c))
  BY DEF Step
<1>2. /\ n \in DOMAIN q.nodes /\ id \notin DOMAIN q.nodes \ {n}
      /\ r = With(q, n, id, marked)
  BY <1>1 DEF OpAllowed, ApplyOp, Update
<1>3. q.nodes[n] \in Nodes /\ id \in Ids /\ DOMAIN c \subseteq NodeFields
  BY <1>2, PlanParts, IdAfterTyped DEF IsChange
<1>4. /\ node \in Nodes
      /\ node.manualFields =
           IF "manualFields" \in DOMAIN c THEN c["manualFields"] ELSE q.nodes[n].manualFields
  BY <1>3, AssignTyped
<1>5. marked \in Nodes /\ marked.manualFields = node.manualFields \cup DOMAIN c
  <2> HIDE DEF node
  <2>1. QED BY <1>3, <1>4 DEF Nodes
<1> HIDE DEF marked, node, id
<1>6. /\ DOMAIN r.nodes = (DOMAIN q.nodes \ {n}) \cup {id} /\ r.nodes[id] = marked
      /\ \A i \in DOMAIN q.nodes \ {n, id} : r.nodes[i] = q.nodes[i]
  BY <1>2, <1>3, <1>5, WithTyped
<1> HIDE DEF r
<1>7. QED BY <1>2, <1>3, <1>4, <1>5, <1>6 DEF r, id

LEMMA EditKeeps == ASSUME IInv, Edit PROVE IInv'
<1>1. PICK n \in Ids, c \in Changes :
        /\ Commit(Patch(plan, "user", <<Update(n, c)>>))
        /\ typed' = {x \in typed : x[1] # n} \cup {<<IdAfter(n, c), f>> : f \in Claims(n, c)}
  BY DEF Edit
<1> DEFINE s == <<Update(n, c)>>
           patch == Patch(plan, "user", s)
           id == IdAfter(n, c)
<1>2. patch.origin = "user" /\ patch.operations = s
  BY DEF Patch
<1>3. IsChange(c)
  BY EngineConstants, NoneIsNoPlan
<1>4. OperationsOK(s)
  BY <1>3 DEF OperationsOK, OperationOK, Update
<1>5. LET q == Final(plan, "user", s)
      IN  /\ q # None /\ plan'.nodes = q.nodes
          /\ Sound(plan') /\ plan'.version = plan.version + 1
  <2> HIDE DEF s, patch
  <2>1. Commit(patch)
    BY <1>1 DEF patch, s
  <2>2. QED BY <1>2, <1>4, <2>1, Committed
<1>6. Final(plan, "user", s) = Step(plan, "user", Update(n, c))
  BY FinalOfOne
<1>7. plan \in Plans
  BY PlanIsPlan
<1>8. /\ n \in DOMAIN plan.nodes /\ id \in Ids /\ id \notin DOMAIN plan.nodes \ {n}
      /\ DOMAIN plan'.nodes = (DOMAIN plan.nodes \ {n}) \cup {id}
      /\ \A i \in DOMAIN plan.nodes \ {n} : plan'.nodes[i] = plan.nodes[i]
      /\ plan'.nodes[id].manualFields =
           DOMAIN c \cup IF "manualFields" \in DOMAIN c THEN c["manualFields"] ELSE plan.nodes[n].manualFields
  BY <1>3, <1>5, <1>6, <1>7, StepEdit
<1> HIDE DEF s, patch, id
<1>9. Claims(n, c) \subseteq plan'.nodes[id].manualFields /\ Claims(n, c) \subseteq NodeFields
  <2>1. {f \in NodeFields : <<n, f>> \in typed} \subseteq plan.nodes[n].manualFields
    BY DEF IInv, MarksInv
  <2>2. DOMAIN c \subseteq NodeFields /\ ("manualFields" \in DOMAIN c => c["manualFields"] \subseteq NodeFields)
    BY <1>3, ValuesAre DEF IsChange
  <2>3. QED BY <1>8, <2>1, <2>2 DEF Claims
<1>10. typed' = {x \in typed : x[1] # n} \cup {<<id, f>> : f \in Claims(n, c)}
  BY <1>1 DEF id
<1>11. MarksInv'
  <2>1. typed' \subseteq Ids \X NodeFields
    BY <1>8, <1>9, <1>10, TypedIs
  <2>2. ASSUME NEW x \in typed'
        PROVE  x[1] \in DOMAIN plan'.nodes /\ x[2] \in plan'.nodes[x[1]].manualFields
    <3>1. CASE x \in typed /\ x[1] # n
      <4>1. x[1] \in DOMAIN plan.nodes \ {n} /\ x[2] \in plan.nodes[x[1]].manualFields
        BY <3>1 DEF IInv, MarksInv
      <4>2. QED BY <1>8, <4>1
    <3>2. CASE \E f \in Claims(n, c) : x = <<id, f>>
      BY <1>8, <1>9, <3>2
    <3>3. QED BY <1>10, <3>1, <3>2
  <2>3. QED BY <2>1, <2>2 DEF MarksInv
<1>12. QED BY <1>5, <1>11, ChangeKeeps DEF Edit

LEMMA ArchiveKeeps == ASSUME IInv, Archive PROVE IInv'
<1>1. PICK n \in DOMAIN plan.nodes : Commit(Patch(plan, "user", <<ArchiveNode(n)>>))
  BY DEF Archive
<1> DEFINE s == <<ArchiveNode(n)>>
           patch == Patch(plan, "user", s)
<1>2. patch.operations = s
  BY DEF Patch
<1>3. OperationsOK(s) /\ AllNarrow(s)
  BY PlanIsPlan, PlanParts DEF OperationsOK, OperationOK, AllNarrow, Narrow, ArchiveNode
<1>4. Commit(patch) /\ UNCHANGED <<draft, typed>>
  BY <1>1 DEF Archive
<1> HIDE DEF s, patch
<1>5. Sound(plan') /\ plan'.version = plan.version + 1 /\ Grows(plan, plan')
  BY <1>2, <1>3, <1>4, Committed
<1>6. MarksInv'
  BY <1>4, <1>5, MarksStay, TypedIs
<1>7. QED BY <1>4, <1>5, <1>6, ChangeKeeps

LEMMA AddKeeps == ASSUME IInv, Add PROVE IInv'
<1>1. PICK n \in Ids, node \in NewNodes :
        /\ Commit(Patch(plan, "user", <<AddNode(n, node)>>))
        /\ typed' = typed \cup {<<n, f>> : f \in node.manualFields}
  BY DEF Add
<1> DEFINE s == <<AddNode(n, node)>>
           patch == Patch(plan, "user", s)
<1>2. patch.origin = "user" /\ patch.operations = s
  BY DEF Patch
<1>3. node \in Nodes
  BY EngineConstants, NoneIsNoPlan
<1>4. OperationsOK(s) /\ AllNarrow(s)
  BY <1>3 DEF OperationsOK, OperationOK, AllNarrow, Narrow, AddNode
<1>5. Commit(patch) /\ UNCHANGED draft
  BY <1>1 DEF Add
<1>6. Final(plan, "user", s) = Step(plan, "user", AddNode(n, node))
  BY FinalOfOne
<1> HIDE DEF s, patch
<1>7. LET q == Final(plan, "user", s)
      IN  /\ q # None /\ plan'.nodes = q.nodes
          /\ Sound(plan') /\ plan'.version = plan.version + 1 /\ Grows(plan, plan')
  BY <1>2, <1>4, <1>5, Committed
<1>8. Step(plan, "user", AddNode(n, node)) = With(plan, n, n, node)
  BY <1>6, <1>7 DEF Step, ApplyOp, AddNode
<1>9. n \in DOMAIN plan'.nodes /\ plan'.nodes[n] = node
  BY <1>3, <1>6, <1>7, <1>8, PlanIsPlan, WithTyped
<1>10. MarksInv'
  <2>1. typed' \subseteq Ids \X NodeFields
    BY <1>1, <1>3, TypedIs DEF Nodes
  <2>2. \A x \in typed' \ typed : x[1] \in DOMAIN plan'.nodes /\ x[2] \in plan'.nodes[x[1]].manualFields
    BY <1>1, <1>9
  <2>3. QED BY <1>7, <2>1, <2>2, MarksStay
<1>11. QED BY <1>5, <1>7, <1>10, ChangeKeeps

LEMMA ReportEventKeeps == ASSUME IInv, ReportEvent PROVE IInv'
<1>1. PICK e \in Events : /\ ValidEvent(e, plan)
                          /\ \E s \in EventOperations(plan, e) :
                               draft' = [kind |-> "event", patch |-> Patch(plan, "agent", s)]
  BY DEF ReportEvent
<1>2. PICK s \in EventOperations(plan, e) :
        draft' = [kind |-> "event", patch |-> Patch(plan, "agent", s)]
  BY <1>1
<1>3. RuleOperations(s)
  BY <1>1, PlanIsPlan, EventOperationsOK
<1>4. /\ draft'.kind = "event"
      /\ draft'.patch.origin = "agent" /\ draft'.patch.operations = s
  BY <1>2 DEF Patch
<1>5. UNCHANGED <<plan, typed>>
  BY DEF ReportEvent
<1>6. PlanIsSound' /\ MarksInv'
  BY <1>4, <1>5 DEF IInv, PlanIsSound, MarksInv
<1>7. DraftInv'
  BY <1>3, <1>4 DEF DraftInv
<1>8. QED BY <1>6, <1>7 DEF IInv

\* A chat's preview, when it is made.
LEMMA ProposeInChatKeeps == ASSUME IInv, ProposeInChat PROVE IInv'
<1> DEFINE May == {o \in Operations : ChatMay(plan, o)}
           next(s) == ApplyPatch(plan, Patch(plan, "agent", s))
<1>1. PICK k \in 1 .. MaxOps : \E s \in [1 .. k -> May] :
        next(s) # None /\ draft' = [kind |-> "chat", baseVersion |-> plan.version, preview |-> next(s)]
  BY DEF ProposeInChat
<1>2. PICK s \in [1 .. k -> May] :
        next(s) # None /\ draft' = [kind |-> "chat", baseVersion |-> plan.version, preview |-> next(s)]
  BY <1>1
<1> DEFINE patch == Patch(plan, "agent", s)
           q == Final(plan, "agent", s)
<1>3. patch.origin = "agent" /\ patch.operations = s
  BY DEF Patch
<1>4. k \in Nat /\ Len(s) = k
  BY EngineConstants, PlacesMakeSeq
<1>5. ASSUME NEW i \in 1 .. Len(s) PROVE OperationOK(s[i]) /\ ChatMay(plan, s[i]) /\ Narrow(s[i])
  BY <1>4, ChatOperationsOK
<1>6. OperationsOK(s) /\ AllNarrow(s)
  BY <1>4, <1>5 DEF OperationsOK, AllNarrow
<1>7. plan \in Plans /\ plan.version \in Nat
  BY PlanIsPlan
<1> HIDE DEF May, patch
<1>8. next(s) = ApplyPatch(plan, patch)
  BY DEF patch
<1>9. /\ q # None /\ q \in Plans
      /\ Sound(next(s)) /\ next(s).version = plan.version + 1 /\ next(s).nodes = q.nodes
  BY <1>2, <1>3, <1>6, <1>7, <1>8, AppliedIsSound
<1>10. KeepsMarked(plan, q)
  <2>1. \A i \in 1 .. Len(s) : s[i].op = "archive_node" =>
          s[i].node \in DOMAIN plan.nodes /\ plan.nodes[s[i].node].manualFields = {}
    BY <1>5 DEF ChatMay
  <2> HIDE DEF q
  <2>2. QED BY <1>6, <1>7, <1>9, <2>1, AgentKeepsMarked DEF q
<1>11. KeepsClosed(plan, q)
  <2>1. \A i \in 1 .. Len(s) : s[i].op \in {"update_node", "archive_node"} =>
          plan.nodes[s[i].node].status \notin {"done", "archived"}
    BY <1>5 DEF ChatMay
  <2> HIDE DEF q
  <2>2. QED BY <1>6, <1>7, <1>9, <2>1, ChatKeepsClosed DEF q
<1> HIDE DEF q, next
<1>12. KeepsMarked(plan, next(s)) /\ KeepsClosed(plan, next(s))
  BY <1>9, <1>10, <1>11 DEF KeepsMarked, KeepsClosed
<1>13. UNCHANGED <<plan, typed>>
  BY DEF ProposeInChat
<1>14. draft'.kind = "chat" /\ draft'.preview = next(s) /\ draft'.baseVersion = plan.version
  BY <1>2
<1>15. PlanIsSound' /\ MarksInv'
  BY <1>9, <1>13, <1>14 DEF IInv, PlanIsSound, MarksInv
<1>16. DraftInv'
  BY <1>7, <1>9, <1>12, <1>13, <1>14 DEF DraftInv
<1>17. QED BY <1>15, <1>16 DEF IInv

\* What confirming leads to keeps what the user has written, and after a chat
\* the tasks that are closed.
LEMMA ConfirmChanges ==
  ASSUME IInv, Confirm
  PROVE  /\ Sound(plan') /\ plan'.version = plan.version + 1
         /\ KeepsMarked(plan, plan')
         /\ draft.kind = "chat" => KeepsClosed(plan, plan')
<1>1. plan \in Plans
  BY PlanIsPlan
<1>2. CASE draft.kind = "event" /\ Commit(draft.patch)
  <2> DEFINE s == draft.patch.operations
             q == Final(plan, "agent", s)
  <2>1. draft.patch.origin = "agent" /\ RuleOperations(s)
    BY <1>2 DEF IInv, DraftInv, Confirm
  <2>2. OperationsOK(s) /\ AllNarrow(s) /\ \A k \in 1 .. Len(s) : s[k].op # "archive_node"
    BY <2>1 DEF RuleOperations
  <2>3. /\ q # None /\ plan'.nodes = q.nodes
        /\ Sound(plan') /\ plan'.version = plan.version + 1
    BY <1>2, <2>1, <2>2, Committed
  <2>4. KeepsMarked(plan, q)
    <3> HIDE DEF s, q
    <3>1. QED BY <1>1, <2>2, <2>3, AgentKeepsMarked DEF q
  <2> HIDE DEF q
  <2>5. QED BY <1>2, <2>3, <2>4 DEF KeepsMarked
<1>3. CASE draft.kind = "chat" /\ draft.baseVersion = plan.version /\ plan' = draft.preview
  BY <1>3 DEF IInv, DraftInv, Confirm
<1>4. QED BY <1>2, <1>3 DEF Confirm

LEMMA ConfirmKeeps == ASSUME IInv, Confirm PROVE IInv'
<1>1. Sound(plan') /\ KeepsMarked(plan, plan')
  BY ConfirmChanges
<1>2. draft' = None /\ UNCHANGED typed
  BY DEF Confirm
<1>3. Grows(plan, plan')
  BY <1>1 DEF KeepsMarked, Grows
<1>4. MarksInv'
  BY <1>2, <1>3, MarksStay, TypedIs
<1>5. PlanIsSound' /\ DraftInv'
  BY <1>1, <1>2 DEF PlanIsSound, DraftInv
<1>6. QED BY <1>4, <1>5 DEF IInv

\* A valid plan is sound as it is.
LEMMA SoundAsItIs ==
  ASSUME NEW p \in Plans, ValidPlan(p) PROVE Sound(p)
<1> DEFINE a == [p EXCEPT !.version = @ + 1]
<1>1. /\ Sound(a) /\ a.nodes = p.nodes /\ a.relations = p.relations
  BY ValidIsSound
<1> HIDE DEF a
<1>2. \A n : DependsOn(a, n) = DependsOn(p, n)
  BY <1>1 DEF DependsOn
<1>3. QED BY <1>1, <1>2, IsPlanMeans DEF Sound

\* A baseline is sound, and follows the version it is for; it leaves no marks.
LEMMA ConfirmBaselineKeeps == ASSUME IInv, ConfirmBaseline PROVE IInv'
<1>1. PICK p \in Previews : ValidPlan(p) /\ plan' = [p EXCEPT !.version = plan.version + 1]
  BY DEF ConfirmBaseline
<1>2. p \in Plans /\ plan.version \in Nat \ {0}
  BY EngineConstants, NoneIsNoPlan, IsPlanMeans, PlanIsPlan
<1>3. /\ plan' \in Plans /\ plan'.version = plan.version + 1
      /\ plan'.nodes = p.nodes /\ plan'.relations = p.relations
  BY <1>1, <1>2 DEF Plans, PlansOver
<1>4. Sound(plan')
  <2>1. Sound(p)
    BY <1>1, <1>2, SoundAsItIs
  <2>2. \A n : DependsOn(plan', n) = DependsOn(p, n)
    BY <1>3 DEF DependsOn
  <2>3. QED BY <1>3, <2>1, <2>2, IsPlanMeans DEF Sound
<1>5. MarksInv'
  BY DEF ConfirmBaseline, MarksInv
<1>6. QED BY <1>3, <1>4, <1>5, ChangeKeeps DEF ConfirmBaseline

\* The invariant holds of the first version.
LEMMA InitHolds == ASSUME Init PROVE IInv
<1>1. FirstPlan \in Plans /\ ValidPlan(FirstPlan)
  BY FirstPlanIsValid, IsPlanMeans
<1>2. Sound(FirstPlan)
  BY <1>1, SoundAsItIs
<1>3. QED BY <1>2 DEF Init, IInv, PlanIsSound, MarksInv, DraftInv

\* Each step keeps it.
LEMMA NextKeeps == ASSUME IInv, [Next]_vars PROVE IInv'
<1>1. CASE Discard
  BY <1>1 DEF Discard, IInv, PlanIsSound, MarksInv, DraftInv
<1>2. CASE UNCHANGED vars
  BY <1>2 DEF vars, IInv, PlanIsSound, MarksInv, DraftInv
<1>3. QED
  BY <1>1, <1>2, EditKeeps, ArchiveKeeps, AddKeeps, ReportEventKeeps, ProposeInChatKeeps,
     ConfirmKeeps, ConfirmBaselineKeeps DEF Next

-----------------------------------------------------------------------------
(* The theorems.                                                           *)

\* The plan is sound, what is the user's is marked whatever bodies his requests
\* have, and what waits for a confirmation respects the marks of the version it
\* was made for: by induction over the requests.
THEOREM EngineInvariant == Spec => []IInv
  BY InitHolds, NextKeeps, PTL DEF Spec

\* Whatever sequence of edits, events, proposals and baselines led to it, the
\* plan that is saved or previewed is sound: applyPatch validates what the
\* operations together lead to.
THEOREM EveryPlanIsSound == Spec => []PlanIsSound
<1>1. IInv => PlanIsSound
  BY DEF IInv
<1>2. QED BY <1>1, EngineInvariant, PTL

\* Confirming what a rule or a model proposed leaves every node and its marks, and
\* the fields the user has edited or listed in manualFields and not left out of a
\* list since; what a chat proposed leaves closed nodes alone.
THEOREM AgentNeverOverwrites == Spec => AgentKeepsUserWork
<1>1. ASSUME IInv, Confirm, NEW n \in DOMAIN plan.nodes
      PROVE  LET old == plan.nodes[n]
                 new == plan'.nodes[n]
             IN  /\ n \in DOMAIN plan'.nodes /\ new.manualFields = old.manualFields
                 /\ \A f \in Fields : <<n, f>> \in typed => new[f] = old[f]
                 /\ draft.kind = "chat" /\ old.status \in {"done", "archived"} => new = old
  <2>1. KeepsMarked(plan, plan') /\ (draft.kind = "chat" => KeepsClosed(plan, plan'))
    BY <1>1, ConfirmChanges
  <2>2. \A f \in Fields : <<n, f>> \in typed => f \in plan.nodes[n].manualFields
    BY <1>1 DEF IInv, MarksInv
  <2>3. QED BY <2>1, <2>2 DEF KeepsMarked, KeepsClosed
<1>2. ASSUME IInv
      PROVE  [Confirm => \A n \in DOMAIN plan.nodes :
                LET old == plan.nodes[n]
                    new == plan'.nodes[n]
                IN  /\ n \in DOMAIN plan'.nodes /\ new.manualFields = old.manualFields
                    /\ \A f \in Fields : <<n, f>> \in typed => new[f] = old[f]
                    /\ draft.kind = "chat" /\ old.status \in {"done", "archived"} => new = old]_vars
  BY <1>1, <1>2
<1>3. QED BY <1>2, EngineInvariant, PTL DEF AgentKeepsUserWork

\* In every plan that is reached, the impact of an event is the closure of the
\* nodes it is about, and the search that finds it ends.
THEOREM ImpactIsAlwaysClosure == Spec => []ImpactIsClosure
<1>1. IInv => ImpactIsClosure
  BY PlanIsPlan, ImpactOfPlan
<1>2. QED BY <1>1, EngineInvariant, PTL

\* The roadmap shows each node of every plan once.
THEOREM ViewAlwaysShowsEachOnce == Spec => []ViewShowsEachOnce
  BY ViewIsPartition, PTL

=============================================================================
