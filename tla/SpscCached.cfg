CONSTANTS
  Cap = 2
  MaxSend = 5
SPECIFICATION CachedFairSpec
INVARIANTS
  CachedTypeOK
  NoDataRace
  CachesConservative
  FifoExactlyOnce
  EofOnlyAtEnd
PROPERTIES
  ImplementsChannel
  EveryElementSettled
