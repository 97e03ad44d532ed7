SPECIFICATION FairSpec
CONSTANTS
  Requests = {r1, r2, r3}
  None = None
  MaxQuestions = 3
  MaxBatch = 2
  MaxTexts = 0
  Attempts = 2
CHECK_DEADLOCK FALSE
PROPERTIES
  SessionReleased
