SPECIFICATION Spec
CONSTANTS
  Words = 2
  Lanes = {0}
  Byte = {0, 1}
  Addr = {0, 4, 8}
  WrAddr = {0, 4}
  RdAddr = {4, 8}
  WData <- Writes
  Data <- AnyWord
  NONE = NONE
  Top = 3
PROPERTY KeepsPromise
