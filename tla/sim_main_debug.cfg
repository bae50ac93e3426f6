SPECIFICATION Spec
CONSTANTS
  Garbage <- Uninitialized
  Latency = 9
  End = 10000
INVARIANTS
  InStep
  DebugModuleSees
PROPERTY SessionFits
CHECK_DEADLOCK FALSE
