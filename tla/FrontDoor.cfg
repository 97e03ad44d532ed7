SPECIFICATION Spec
CONSTANTS
  Browsers = {b1, b2}
  StateLife = 2
  Lifetime = 2
  MaxIds = 4
  AuthTime = 3
  Requests = {r1, r2}
  MaxEntries = 2
  Expiry = 0
  MaxRuns = 3
  TrackTime = 1
  Accounts = {a1}
  None = None
INVARIANTS
  StateUsedOnce
  ProgressIsItsRuns
  EndedIsQuiet
SYMMETRY Symmetry
CHECK_DEADLOCK FALSE
