SPECIFICATION Spec
CONSTANTS
  Requests = {r1, r2, r3, r4}
  None = None
  Kinds = {"edit", "applyDiff", "applyBaseline", "event", "replan", "live", "evidence", "revise", "mock"}
SYMMETRY Symmetry
CHECK_DEADLOCK FALSE
INVARIANTS
  TypeOK
  MutualExclusion
  ConfirmedAsPreviewed
  HistoryLinear
  HistoryComplete
  NoStaleDraftSaved
  OneBaselineDraft
PROPERTIES
  NoLostUpdate
  KeepsHistory
