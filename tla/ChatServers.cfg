CONSTANTS
  Users = {1, 2}
  Names = {"Ann", "Bob"}
  MaxSends = 2
  Room = 1
  LineLength = 4
  MaxDisconnects = 1
  MaxGarbled = 1
  MaxBroken = 1
  Workers = 3
  TaskNames = {"Ann"}
SPECIFICATION ChatSpec
INVARIANTS
  AsyncTypeOK
  EveryoneHearsUnlessBroken
PROPERTIES
  HangUpsAnnounced
CHECK_DEADLOCK FALSE
