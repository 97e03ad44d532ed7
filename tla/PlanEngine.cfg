SPECIFICATION Spec
CONSTANTS
  m = m
  a = a
  b = b
  None = None
  Ids = {m, a, b}
  Hours = {1, 2}
  Statuses = {"todo", "done", "archived"}
  Texts = {"reason"}
  Changes <- MCChanges
  NewNodes <- MCNewNodes
  Links <- MCLinks
  FirstPlan <- MCFirstPlan
  Previews <- MCPreviews
  MaxVersion = 3
  MaxOps = 2
CHECK_DEADLOCK FALSE
INVARIANTS
  PlanIsSound
  ImpactIsClosure
  ViewShowsEachOnce
PROPERTIES
  AgentKeepsUserWork
