SPECIFICATION Spec
CONSTANTS
  Requests = {r1, r2, r3, r4}
  None = None
  Kinds = {"edit", "applyDiff", "event", "replan", "chatMessage", "chatApply", "chatDiscard"}
SYMMETRY Symmetry
CHECK_DEADLOCK FALSE
INVARIANTS
  ChatTellsTheTruth
PROPERTIES
  NoLostUpdate
