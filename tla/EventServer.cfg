CONSTANTS
  Users = {1, 2}
  MaxUnits = 4
  MaxShared = 3
  MaxGarbled = 1
SPECIFICATION FairSpec
INVARIANTS
  TypeOK
  EveryoneHearsUnlessResumed
PROPERTIES
  HangUpsNoticed
CHECK_DEADLOCK FALSE
