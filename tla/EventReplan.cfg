SPECIFICATION Spec
CONSTANTS
  m1 = m1
  m2 = m2
  t1 = t1
  t2 = t2
  t3 = t3
  t4 = t4
  e1 = e1
  e2 = e2
  Evidence = {e1, e2}
  WeekDays = 2
  WeeklyHours = 200
  Tolerance = 100
  MinMilestones = 1
  MaxPerWeek = 3
  Drafts <- MCDrafts
  Confirmed <- MCConfirmed
  Spans <- MCSpans
  Edits <- MCEdits
  Effective = {1, 3}
  Budgets = {100, 200}
  LimitWeeks = 3
  Scale = 60
  MaxVersion = 5
INVARIANTS
  RouteIsSound
  NoSoundReplanRefused
PROPERTIES
  ReplanIsSound
CHECK_DEADLOCK FALSE
