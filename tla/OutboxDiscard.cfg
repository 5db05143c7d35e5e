CONSTANTS
  Action = {a1, a2, a3, a4}
  None = None
  Capacity = 2
  Faultable <- OnlyDiscard
  MaxFaults = 1
  MaxPowerLosses = 1
SPECIFICATION Spec
INVARIANTS
  NoConfirmedActionLost
CHECK_DEADLOCK FALSE
