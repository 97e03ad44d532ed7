SPECIFICATION Spec
CONSTANTS
  q1 = q1
  q2 = q2
  q3 = q3
  q4 = q4
  q5 = q5
  k1 = k1
  k2 = k2
  k3 = k3
  k4 = k4
  k5 = k5
  s1 = s1
  s2 = s2
  s3 = s3
  x = x
  y = y
  None = None
  Cards = {k1, k2, k3, k4, k5}
  ContentOf <- MCContentOf
  SourceOf <- MCSourceOf
  AuthorOf <- MCAuthorOf
  Caveats = {k1, k2, k5}
  Applicable = {k1, k2, k4, k5}
  MaxEvidence = 3
  TargetMin = 2
  MaxPerSource = 1
  MaxPerAuthor = 1
  Queries = {q1, q2, q3, q4, q5}
  NormalOf <- MCNormalOf
  Batches <- MCBatches
  Packs <- MCPacks
  Budget = 4
INVARIANTS
  QueriesWithinBudget
  ReportTellsTheTruth
  EvidenceIsSupported
CHECK_DEADLOCK FALSE
