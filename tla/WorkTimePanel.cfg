SPECIFICATION Spec
CONSTANTS
  Parts <- OnlyPanel
  r1 = r1
  r2 = r2
  c1 = c1
  s1 = s1
  s2 = s2
  l1 = l1
  l2 = l2
  m1 = m1
  Requests <- TwoRequests
  Corrections <- OneCorrection
  Supervisors <- TwoSupervisors
  DayLen = 4
  DayMinutes = 4
  MaxInterval = 2
  LastDay = 1
  MaxTime = 13
  CorrectedKinds <- SomeKinds
  CorrectedTimes <- SomeTimes
  Drafts <- SomeDrafts
  FirstWeekday = 1
  MonthLen = 2
  Contracts <- SomeContracts
  Plans <- SomePlans
  NewSchedules <- SomeSchedules
  MaxSchedules = 2
  MaxStatements = 2
  EditTimes <- SomeEditTimes
  MaxIntervals = 3
  Leaves <- TwoLeaves
  LeaveDrafts <- SomeLeaveDrafts
  Reviewers <- OneManager
  YearLen = 3
  LeavePlans <- SomeLeavePlans
  LeaveContracts <- SomeContracts
  Blackouts <- SomeBlackouts
  StartDates <- SomeStartDates
  WalkDays = 70
  SentContracts <- SomeSentContracts
  Entitlements = {2, 4}
INVARIANT
  PanelCountsWhatServerCounts
CHECK_DEADLOCK FALSE
