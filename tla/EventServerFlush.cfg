CONSTANTS
  Users = {1, 2}
  MaxUnits = 4
  MaxShared = 3
  MaxGarbled = 1
SPECIFICATION Spec
INVARIANTS
  FlushGoesOn
CHECK_DEADLOCK FALSE
