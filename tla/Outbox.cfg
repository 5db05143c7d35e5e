CONSTANTS
  Action = {a1, a2, a3, a4}
  None = None
  Capacity = 2
  Faultable <- Others
  MaxFaults = 1
  MaxPowerLosses = 2
SPECIFICATION FairSpec
INVARIANTS
  TypeOK
  NoConfirmedActionLost
  CompletionsMatchActions
  NeverBricked
PROPERTIES
  RecoveryIsStable
  ImplementsQueue
  EventuallyReady
CHECK_DEADLOCK FALSE
