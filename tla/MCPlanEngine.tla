---------------------------- MODULE MCPlanEngine ----------------------------
(***************************************************************************)
(* PlanEngine for TLC: a milestone m with a task a, and an id b for a node *)
(* to come or to be renamed to.  m needs a from the start; a chat may make *)
(* b need a or m, and a need b, so there are chains and cycles.  Changes   *)
(* name each field, one of them two; the baseline keeps m and replaces a.  *)
(***************************************************************************)
EXTENDS PlanEngine

CONSTANTS m, a, b

MCNode(t, group, marks) ==
  [type |-> t, status |-> "todo", milestoneId |-> group,
   adjustmentReason |-> None, manualFields |-> marks]

MCLink(x, y, h) == [sourceId |-> x, targetId |-> y, hard |-> h]

MCChanges ==
  [{"status"} -> Statuses] \cup [{"milestoneId"} -> {b, None}]
    \cup [{"adjustmentReason"} -> Texts] \cup [{"id"} -> {a, b}] \cup [{"type"} -> {"milestone"}]
    \cup {[status |-> "todo", manualFields |-> {"milestoneId"}]}

MCNewNodes ==
  {MCNode("task", m, {}), MCNode("task", None, {"milestoneId"}), MCNode("milestone", None, {})}

MCLinks == {MCLink(b, a, TRUE), MCLink(a, b, FALSE), MCLink(b, m, FALSE)}

MCPlan(t, links) ==
  [version |-> 1, weeklyHours |-> 1, relations |-> links,
   nodes |-> [i \in {m, t} |-> IF i = m THEN MCNode("milestone", None, {}) ELSE MCNode("task", m, {})]]

MCFirstPlan == MCPlan(a, {MCLink(m, a, FALSE)})

MCPreviews == {MCPlan(b, {})}

=============================================================================
