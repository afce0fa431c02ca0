CONSTANTS
  Producers = {p1, p2}
  Nobody = Nobody
  Cap = 4
  ApplySize = 3
  MaxSend = 2
SPECIFICATION FairSpec
INVARIANTS
  TypeOK
  SlicesTile
  NoDataRace
  FreeIsTheRest
  PerProducerFifo
  GoneMeansMerged
  EofOnlyAtEnd
PROPERTIES
  EveryElementSettled
