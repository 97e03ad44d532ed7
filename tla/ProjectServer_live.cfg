SPECIFICATION FairSpec
CONSTANTS
  Requests = {r1, r2, r3}
  None = None
  Kinds = {"edit", "applyDiff", "event", "live", "chatMessage", "chatApply", "chatDiscard"}
CHECK_DEADLOCK FALSE
PROPERTIES
  LockReleased
  HistoryCatchesUp
