CONSTANTS
  t1 = t1
  e1 = e1
  e2 = e2
  Tag = {t1}
  Employee = {e1, e2}
  None = None
  Capacity = 2
  Slots = 4
  Second = 1
  ScanTTL = 1
  SelectionTime = 1
  InteractionTime = 2
  MessageTime = 1
  RetryTime = 1
  ClockTrust = 1
  Steps = {1}
  MaxNow = 2
  MaxJobs = 5
  MaxRestarts = 1
  MaxChanges = 2
SPECIFICATION FairSpec
CONSTRAINT Small
INVARIANTS
  TypeOK
  OneJobAtATime
  StoredBeforeSent
  RecordedForThePersonShown
  NeverDroppedUndecided
  ConfirmedIsRecorded
  OneActionPerScan
PROPERTIES
  AlwaysAnswered
CHECK_DEADLOCK FALSE
