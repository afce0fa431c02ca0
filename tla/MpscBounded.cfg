CONSTANTS
  Producers = {p1, p2}
  Nobody = Nobody
  Cap = 2
  MaxSend = 3
SPECIFICATION FairSpec
INVARIANTS
  TypeOK
  NoDataRace
  LenIsDistance
PROPERTIES
  ImplementsChannel
  CallsReturn
