SPECIFICATION Spec
CONSTANTS
  Requests = {r1, r2, r3, r4}
  None = None
  MaxQuestions = 3
  MaxBatch = 2
  MaxTexts = 1
  Attempts = 2
SYMMETRY Symmetry
CHECK_DEADLOCK FALSE
INVARIANTS
  TypeOK
  SessionLocked
  AnswersSavedFirst
  WithinBudget
  DraftsArePending
PROPERTIES
  AnswersKept
  FinishIsFinal
  CompleteIsFrozen
