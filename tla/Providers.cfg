SPECIFICATION Spec
CONSTANTS
  StdoutLimit = 1
  StderrLimit = 6
  MaxLine = 2
  MaxOutput = 2
  Texts <- MCTexts
  Answer = Answer
  None = None
INVARIANTS
  LeftoverIsReported
  DiagnosisIsFromOneLine
  ShownIsKept
PROPERTIES
  CallSettles
CHECK_DEADLOCK FALSE
