CONSTANTS
  BlockSize = 12
  BlocksPerGroup = 24
  BlockCount = 94
  FirstDataBlock = 1
  HeaderLength = 2
  Devices <- MCDevices
SPECIFICATION Spec
INVARIANTS
  TypeOK
  RecoversPictures
PROPERTIES
  PassesNoFreeBlock
  Terminates
CHECK_DEADLOCK FALSE
