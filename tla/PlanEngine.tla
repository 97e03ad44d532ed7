----------------------------- MODULE PlanEngine -----------------------------
(***************************************************************************)
(* The content of a plan and everything that may change it.                *)
(*                                                                         *)
(* ProjectServer knows of a plan only its version and which changes it     *)
(* has.  Here a plan is its nodes, the dependencies between them and the   *)
(* weekly hours, and a change is a patch: a sequence of operations that    *)
(* packages/plan-engine validates and applies.  Patches are made by the    *)
(* user's edits, by the rules for events and by the model in a chat.  The  *)
(* baseline that research leads to replaces the plan as a whole, once.     *)
(*                                                                         *)
(* The bodies of the user's requests are not validated: an edit may name   *)
(* any field of the node, manualFields and the id included.  A model's     *)
(* bodies are the same but for what roadmap-chat.ts refuses (ChatMay).     *)
(*                                                                         *)
(* Requests run one at a time here; their interleaving is ProjectServer's. *)
(***************************************************************************)
EXTENDS Naturals, Sequences, FiniteSets, SequencesExt

CONSTANTS
  Ids,         \* the ids nodes may have
  Hours,       \* weekly hours users and models choose from
  Statuses,    \* statuses they choose from
  Texts,       \* what an adjustmentReason may say
  Changes,     \* the changes users and models ask for
  NewNodes,    \* the new nodes they ask for
  Links,       \* dependencies a chat may add
  FirstPlan,   \* the plan of the first commit
  Previews,    \* the baselines research may propose
  MaxVersion,  \* bound: no change is made to a plan of this version
  MaxOps,      \* bound: operations of one chat proposal
  None         \* an optional field without a value; no draft

NodeTypes == {"task", "milestone", "assumption", "decision", "checkpoint"}

\* What a model may write (fields), and what a body may name.
Fields     == {"status", "milestoneId", "adjustmentReason"}
NodeFields == Fields \cup {"id", "type", "manualFields"}

\* The values of a field; an optional one may have none.
Values(f) ==
  CASE f = "status" -> Statuses
    [] f = "milestoneId" -> Ids \cup {None}
    [] f = "adjustmentReason" -> Texts \cup {None}
    [] f = "type" -> NodeTypes
    [] f = "id" -> Ids
    [] OTHER -> SUBSET NodeFields

\* A node; its id is where a plan has it.
Nodes == [type : NodeTypes, status : Statuses, milestoneId : Ids \cup {None},
          adjustmentReason : Texts \cup {None}, manualFields : SUBSET NodeFields]

\* Changes to a node: values of some of its fields.
IsChange(c) == DOMAIN c \subseteq NodeFields /\ \A f \in DOMAIN c : c[f] \in Values(f)

\* A depends_on relation: the source depends on the target.
Relations == [sourceId : Ids, targetId : Ids, hard : BOOLEAN]

PlansOver(nodes) ==
  [version : Nat \ {0}, weeklyHours : Hours, relations : SUBSET Relations, nodes : nodes]

IsPlan(p) == DOMAIN p.nodes \subseteq Ids /\ p \in PlansOver([DOMAIN p.nodes -> Nodes])

ASSUME EngineConstants ==
  /\ IsFiniteSet(Ids) /\ Links \subseteq Relations
  /\ Hours \subseteq Nat /\ {"todo", "done", "archived"} \subseteq Statuses
  /\ \A c \in Changes : IsChange(c)
  /\ NewNodes \subseteq Nodes
  /\ \A p \in Previews : IsPlan(p)
  /\ MaxVersion \in Nat /\ MaxOps \in Nat
  /\ None \notin Ids \cup Statuses \cup PlansOver(UNION {[S -> Nodes] : S \in SUBSET Ids})

VARIABLES
  plan,    \* plan.json
  draft,   \* the patch (of an event) or plan (of a chat) waiting for confirmation
  pending, \* whether the plan's evidence says that research is still to come
  typed    \* history: the fields of nodes that are the user's

vars == <<plan, draft, pending, typed>>

-----------------------------------------------------------------------------
(* validatePlan.                                                           *)

DependsOn(p, n) == {r.targetId : r \in {x \in p.relations : x.sourceId = n}}

\* hasCycle, without the memory of nodes it has been to: a walk along the
\* dependencies comes back to a node it is visiting.
HasCycle(p) ==
  LET walk[at \in Ids \X SUBSET Ids] ==
        LET n == at[1] visiting == at[2]
        IN  n \in visiting \/ \E d \in DependsOn(p, n) : walk[<<d, visiting \cup {n}>>]
  IN  \E n \in DOMAIN p.nodes : walk[<<n, {}>>]

Started == {"ready", "in_progress", "done"}

\* validateDependencyRules: what has started has its hard dependencies done.
HardDependencyUnmet(p) ==
  \E r \in p.relations :
    /\ r.hard /\ {r.sourceId, r.targetId} \subseteq DOMAIN p.nodes
    /\ p.nodes[r.sourceId].status \in Started
    /\ p.nodes[r.targetId].status # "done"

\* Faulty variant: only the order of statuses is looked at.
ValidPlanRulesOnly(p) == ~ HardDependencyUnmet(p)

ValidPlan(p) ==
  /\ p.version >= 1 /\ p.weeklyHours > 0
  /\ \A r \in p.relations :
       {r.sourceId, r.targetId} \subseteq DOMAIN p.nodes /\ r.sourceId # r.targetId
  /\ \A n \in DOMAIN p.nodes : p.nodes[n].milestoneId \in DOMAIN p.nodes \cup {None}
  /\ ~ HardDependencyUnmet(p)
  /\ ~ HasCycle(p)

ASSUME FirstPlanIsValid == IsPlan(FirstPlan) /\ FirstPlan.version = 1 /\ ValidPlan(FirstPlan)

-----------------------------------------------------------------------------
(* Patches.                                                                *)

\* Object.assign(node, changes).
Assign(node, changes) ==
  [f \in DOMAIN node |-> IF f \in DOMAIN changes THEN changes[f] ELSE node[f]]

\* The node n of p, or a new one, becomes this node with this id.
With(p, n, id, node) ==
  [p EXCEPT !.nodes = [i \in (DOMAIN p.nodes \ {n}) \cup {id} |-> IF i = id THEN node ELSE p.nodes[i]]]

\* The id a node has after a change.
IdAfter(n, c) == IF "id" \in DOMAIN c THEN c["id"] ELSE n

\* Faulty variant: the engine lets a model write what the user has written.
OpAllowedToAll(p, origin, o) ==
  CASE o.op = "add_node" -> o.node \notin DOMAIN p.nodes
    [] o.op = "update_node" ->
         /\ o.node \in DOMAIN p.nodes
         /\ IdAfter(o.node, o.changes) \notin DOMAIN p.nodes \ {o.node}
    [] o.op = "archive_node" -> o.node \in DOMAIN p.nodes
    [] o.op = "add_relation" -> o.relation \notin p.relations
    [] o.op = "remove_relation" -> o.relation \in p.relations
    [] OTHER -> o.weeklyHours > 0

\* What validatePatch asks of one operation, of the plan the ones before leave;
\* that an id is not given twice it asks of the plan they all lead to.
OpAllowed(p, origin, o) ==
  CASE o.op = "add_node" -> o.node \notin DOMAIN p.nodes
    [] o.op = "update_node" ->
         /\ o.node \in DOMAIN p.nodes
         /\ origin = "agent" => DOMAIN o.changes \cap p.nodes[o.node].manualFields = {}
         /\ IdAfter(o.node, o.changes) \notin DOMAIN p.nodes \ {o.node}
    [] o.op = "archive_node" -> o.node \in DOMAIN p.nodes
    [] o.op = "add_relation" -> o.relation \notin p.relations
    [] o.op = "remove_relation" -> o.relation \in p.relations
    [] OTHER -> o.weeklyHours > 0

\* What applyPatchUnchecked makes of the plan; the user's updates are marked,
\* after a change of the marks themselves.
ApplyOp(p, origin, o) ==
  CASE o.op = "add_node" -> With(p, o.node, o.node, o.value)
    [] o.op = "update_node" ->
         LET node == Assign(p.nodes[o.node], o.changes)
             mark == IF origin = "user" THEN DOMAIN o.changes ELSE {}
         IN  With(p, o.node, IdAfter(o.node, o.changes), [node EXCEPT !.manualFields = @ \cup mark])
    [] o.op = "archive_node" -> [p EXCEPT !.nodes[o.node].status = "archived"]
    [] o.op = "add_relation" -> [p EXCEPT !.relations = @ \cup {o.relation}]
    [] o.op = "remove_relation" -> [p EXCEPT !.relations = @ \ {o.relation}]
    [] OTHER -> [p EXCEPT !.weeklyHours = o.weeklyHours]

\* An operation that is not allowed refuses the whole patch.
Step(q, origin, o) ==
  IF q # None /\ OpAllowed(q, origin, o) THEN ApplyOp(q, origin, o) ELSE None

\* What the first operations make of a plan, for each number of them.
Steps(p, origin, operations) ==
  LET after[k \in 0 .. Len(operations)] ==
        IF k = 0 THEN p ELSE Step(after[k - 1], origin, operations[k])
  IN  after

\* The plan a patch leads to, or None; so does a plan that is not valid.
ApplyPatch(p, patch) ==
  LET next == IF patch.baseVersion = p.version
              THEN Steps(p, patch.origin, patch.operations)[Len(patch.operations)] ELSE None
  IN  IF next # None /\ ValidPlan(next) THEN [next EXCEPT !.version = @ + 1] ELSE None

Patch(p, origin, operations) ==
  [baseVersion |-> p.version, origin |-> origin, operations |-> operations]

Update(n, changes)  == [op |-> "update_node", node |-> n, changes |-> changes]
ArchiveNode(n)      == [op |-> "archive_node", node |-> n]
AddNode(n, node)    == [op |-> "add_node", node |-> n, value |-> node]
AddRelation(r)      == [op |-> "add_relation", relation |-> r]
RemoveRelation(r)   == [op |-> "remove_relation", relation |-> r]
SetHours(h)         == [op |-> "set_weekly_hours", weeklyHours |-> h]

-----------------------------------------------------------------------------
(* calculateImpact.                                                        *)

Events == [type : {"constraint_changed", "task_completed", "custom", "other"},
           targetNodeIds : SUBSET Ids]

ValidEvent(e, p) ==
  /\ e.targetNodeIds \subseteq DOMAIN p.nodes
  /\ e.type = "custom" => e.targetNodeIds # {}

Active(p)  == {n \in DOMAIN p.nodes : p.nodes[n].status # "archived"}
OpenTasks(p) == {n \in Active(p) : p.nodes[n].type = "task" /\ p.nodes[n].status # "done"}

Seeds(p, e) ==
  e.targetNodeIds \cup IF e.type = "constraint_changed" THEN OpenTasks(p) ELSE {}

Dependents(p, S) == {r.sourceId : r \in {x \in p.relations : x.targetId \in S}}

\* Faulty variant: only what depends on the event's nodes directly is affected.
SpreadOnce(p, S) == S \cup Dependents(p, S)

\* The queue of the breadth-first search is the last round's finds.
Spread(p, S) ==
  LET round[R \in SUBSET Ids] ==
        LET found == R \cup Dependents(p, R) IN IF found = R THEN R ELSE round[found]
  IN  round[S]

\* The milestones of affected tasks are affected, what depends on them is not.
Affected(p, e) ==
  LET hit == Spread(p, Seeds(p, e))
  IN  hit \cup {p.nodes[n].milestoneId :
                  n \in {i \in Active(p) \cap hit : p.nodes[i].type = "task"
                                                    /\ p.nodes[i].milestoneId # None}}

Impact(p, e) ==
  LET affected == Affected(p, e)
      ofType(t) == {n \in Active(p) \cap affected : p.nodes[n].type = t}
  IN  [affected     |-> affected,
       invalidated  |-> ofType("assumption"),
       reevaluate   |-> ofType("decision"),
       reschedule   |-> OpenTasks(p) \cap affected,
       blocked      |-> {n \in Active(p) \cap affected : p.nodes[n].status = "blocked"},
       unaffected   |-> Active(p) \ affected]

-----------------------------------------------------------------------------
(* proposeDeterministicPatch: what the rules make of an event, whatever its *)
(* description and the hours it brings.                                    *)

EventOperations(p, e) ==
  LET updates(S, changes) ==
        LET order == SetToSeq(S) IN [i \in 1 .. Len(order) |-> Update(order[i], changes)]
      reason(t) == [adjustmentReason |-> t]
      unnoted == {n \in Impact(p, e).reschedule :
                    "adjustmentReason" \notin p.nodes[n].manualFields}
  IN  {CASE e.type = "constraint_changed" -> <<SetHours(h)>> \o updates(unnoted, reason(t))
         [] e.type = "task_completed" ->
              updates(e.targetNodeIds, [status |-> "done", adjustmentReason |-> t])
         [] e.type = "custom" -> updates(e.targetNodeIds, reason(t))
         [] OTHER -> <<>> : t \in Texts, h \in Hours}

-----------------------------------------------------------------------------
(* What a chat may propose.                                                *)

Operations ==
  {Update(n, c) : n \in Ids, c \in Changes} \cup {ArchiveNode(n) : n \in Ids}
    \cup {AddNode(n, node) : n \in Ids, node \in NewNodes}
    \cup {AddRelation(r) : r \in Links} \cup {RemoveRelation(r) : r \in Links}
    \cup {SetHours(h) : h \in Hours}

\* operations() looks at the plan as it is, whatever the other operations do.
ChatMay(p, o) ==
  CASE o.op \in {"update_node", "archive_node"} ->
         /\ o.node \in DOMAIN p.nodes /\ p.nodes[o.node].type # "checkpoint"
         /\ p.nodes[o.node].status \notin {"done", "archived"}
         /\ o.op = "archive_node" => p.nodes[o.node].manualFields = {}
         /\ o.op = "update_node" =>
              DOMAIN o.changes \subseteq Fields /\ \A f \in DOMAIN o.changes : o.changes[f] # None
    [] o.op = "add_node" ->
         o.value.type \in {"task", "milestone"} /\ o.value.status = "todo" /\ o.value.manualFields = {}
    [] OTHER -> TRUE

-----------------------------------------------------------------------------
(* projectView.                                                            *)

\* Faulty variant: a task outside the groups is one that names no milestone.
UngroupedByName(p) ==
  {n \in Active(p) : p.nodes[n].type # "milestone" /\ p.nodes[n].milestoneId = None}

Groups(p) ==
  [m \in {n \in Active(p) : p.nodes[n].type = "milestone"} |->
     {n \in Active(p) : p.nodes[n].type = "task" /\ p.nodes[n].milestoneId = m}]

Ungrouped(p) == Active(p) \ UNION {{m} \cup Groups(p)[m] : m \in DOMAIN Groups(p)}

-----------------------------------------------------------------------------
(* The requests.                                                           *)

\* commitPatch: the patch is applied and saved, or nothing is.
Commit(patch) ==
  LET next == ApplyPatch(plan, patch) IN next # None /\ plan' = next

CanChange == plan.version < MaxVersion

\* What of node n is the user's after an edit: what its body names, and what was
\* before, unless the body brings marks of its own.
Claims(n, c) ==
  LET before == {f \in NodeFields : <<n, f>> \in typed}
  IN  DOMAIN c \cup IF "manualFields" \in DOMAIN c THEN c["manualFields"] ELSE before

\* PATCH of a node, whatever its state.
Edit ==
  /\ CanChange
  /\ \E n \in Ids, c \in Changes :
       /\ Commit(Patch(plan, "user", <<Update(n, c)>>))
       /\ typed' = {x \in typed : x[1] # n} \cup {<<IdAfter(n, c), f>> : f \in Claims(n, c)}
  /\ UNCHANGED <<draft, pending>>

\* DELETE archives, and only tasks.
Archive ==
  /\ CanChange
  /\ \E n \in DOMAIN plan.nodes :
       plan.nodes[n].type = "task" /\ Commit(Patch(plan, "user", <<ArchiveNode(n)>>))
  /\ UNCHANGED <<draft, pending, typed>>

\* POST of a new node: the user's is what it says is.
Add ==
  /\ CanChange
  /\ \E n \in Ids, node \in NewNodes :
       /\ Commit(Patch(plan, "user", <<AddNode(n, node)>>))
       /\ typed' = typed \cup {<<n, f>> : f \in node.manualFields}
  /\ UNCHANGED <<draft, pending>>

\* POST of an event: its patch waits, and must be applicable now.
ReportEvent ==
  /\ CanChange
  /\ \E e \in Events :
       /\ ValidEvent(e, plan)
       /\ \E operations \in EventOperations(plan, e) :
            LET patch == Patch(plan, "agent", operations)
            IN  /\ ApplyPatch(plan, patch) # None
                /\ draft' = [kind |-> "event", patch |-> patch]
  /\ UNCHANGED <<plan, pending, typed>>

\* A chat proposal: what waits is the plan it leads to.
ProposeInChat ==
  /\ CanChange
  /\ \E operations \in UNION {[1 .. k -> {o \in Operations : ChatMay(plan, o)}] : k \in 1 .. MaxOps} :
       LET next == ApplyPatch(plan, Patch(plan, "agent", operations))
       IN  /\ next # None /\ [next EXCEPT !.version = plan.version] # plan
           /\ draft' = [kind |-> "chat", baseVersion |-> plan.version, preview |-> next]
  /\ UNCHANGED <<plan, pending, typed>>

\* An event's patch is applied again, a chat's preview is saved as it is.
Confirm ==
  /\ draft # None
  /\ \/ draft.kind = "event" /\ Commit(draft.patch)
     \/ draft.kind = "chat" /\ draft.baseVersion = plan.version /\ plan' = draft.preview
  /\ draft' = None
  /\ UNCHANGED <<pending, typed>>

Discard == draft # None /\ draft' = None /\ UNCHANGED <<plan, pending, typed>>

\* applyBaselineProposal: while research is to come, a proposal made for this
\* version replaces the nodes and relations, and with them all marks.
ConfirmBaseline ==
  /\ CanChange /\ pending
  /\ \E p \in Previews :
       /\ ValidPlan(p)
       /\ plan' = [p EXCEPT !.version = plan.version + 1]
  /\ pending' = FALSE /\ typed' = {}
  /\ UNCHANGED draft

Init == plan = FirstPlan /\ draft = None /\ pending = TRUE /\ typed = {}

Next ==
  \/ Edit \/ Archive \/ Add \/ ReportEvent \/ ProposeInChat
  \/ Confirm \/ Discard \/ ConfirmBaseline

Spec == Init /\ [][Next]_vars

-----------------------------------------------------------------------------

(* Properties.                                                             *)

\* Whatever sequence of edits, events, proposals and baselines led to it, a plan
\* that was saved or is previewed is well formed and has no dependency
\* that leads back to itself, nothing started before its hard dependencies, no
\* reference to a node it has not: each operation is checked by itself, and it
\* is their combination that has to be.
Sound(p) ==
  /\ IsPlan(p)
  /\ \A S \in SUBSET DOMAIN p.nodes : S # {} => \E n \in S : DependsOn(p, n) \cap S = {}
  /\ \A r \in p.relations :
       /\ {r.sourceId, r.targetId} \subseteq DOMAIN p.nodes
       /\ r.hard /\ p.nodes[r.targetId].status # "done"
            => p.nodes[r.sourceId].status \notin Started
  /\ {p.nodes[n].milestoneId : n \in DOMAIN p.nodes} \subseteq DOMAIN p.nodes \cup {None}

PlanIsSound ==
  /\ Sound(plan)
  /\ draft # None /\ draft.kind = "chat" => Sound(draft.preview)

\* Confirming what a rule or a model proposed leaves every node, its marks and
\* the fields that are the user's, whether he made them his before the proposal
\* or after it: those he has edited and those he has listed in manualFields,
\* until a list of his own leaves them out.  (A new node's fields that its body
\* does not list are not his, though he has written them.)  And what a chat
\* proposed leaves the nodes alone that are done or archived by the time it is
\* confirmed.  Only a baseline replaces them.
AgentKeepsUserWork ==
  [][Confirm => \A n \in DOMAIN plan.nodes :
       LET old == plan.nodes[n]
           new == plan'.nodes[n]
       IN  /\ n \in DOMAIN plan'.nodes /\ new.manualFields = old.manualFields
           /\ \A f \in Fields : <<n, f>> \in typed => new[f] = old[f]
           /\ draft.kind = "chat" /\ old.status \in {"done", "archived"} => new = old]_vars

\* The impact of an event is the smallest set that has the nodes it is about
\* and everything that depends on one in the set, with the milestones of its
\* tasks; no task of a plan is left out of both "to reschedule" and
\* "unaffected" but those that are done.
ImpactIsClosure ==
  \A e \in Events : ValidEvent(e, plan) =>
    LET i == Impact(plan, e)
        seeds == Seeds(plan, e)
        core == {n \in Ids : \A S \in SUBSET Ids :
                   seeds \cup Dependents(plan, S) \subseteq S => n \in S}
    IN  /\ core \subseteq i.affected
        /\ \A m \in i.affected \ core :
             \E n \in OpenTasks(plan) \cup Active(plan) : n \in core /\ plan.nodes[n].milestoneId = m
        /\ OpenTasks(plan) \subseteq i.reschedule \cup i.unaffected
        /\ i.reschedule \cap i.unaffected = {}

\* The roadmap shows every node that is not archived once, also when its
\* milestone has been archived or is no milestone.
ViewShowsEachOnce ==
  \A n \in Active(plan) :
    Cardinality({m \in DOMAIN Groups(plan) : n = m \/ n \in Groups(plan)[m]})
      + (IF n \in Ungrouped(plan) THEN 1 ELSE 0) = 1

=============================================================================
