CONSTANTS
  Cap = 2
  MaxSend = 6
SPECIFICATION FairSpec
INVARIANTS
  TypeOK
  FirstLapIsExact
  EofOnlyAtEnd
PROPERTIES
  CallsReturn
