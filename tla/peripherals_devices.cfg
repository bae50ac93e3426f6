SPECIFICATION Spec
CONSTANTS
  Lanes = {0}
  Byte = {0, 1}
  Addr = {0, 4, 8, 12, 16}
  Data <- AnyWord
  NONE = NONE
  Top = 3
  LedWrAddr = {8}
  LedRdAddr = {0}
  LedWData <- FullWrites
  GpioWrAddr = {4}
  GpioRdAddr = {0}
  GpioWData <- SetOnly
  TimerWrAddr = {8, 16}
  TimerRdAddr = {4}
  TimerWData <- ZeroLanes
  Low <- Zeros
  Pins <- AnyWord
PROPERTIES
  KeepsPromise
  IrqAgreesWithRead
