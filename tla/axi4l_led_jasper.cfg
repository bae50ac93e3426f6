SPECIFICATION Spec
CONSTANTS
  Lanes = {0}
  Byte = {b0, b1}
  Regs = {0}
  Addr = {0, 8}
  WrAddr = {0, 8}
  RdAddr = {0}
  WData <- FullWrites
  Data <- AnyWord
  NONE = NONE
  Top = 3
SYMMETRY Permuted
PROPERTY AST_write_led_resp_ok
