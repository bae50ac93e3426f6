SPECIFICATION PortSpec
CONSTANTS
  Addr = {a1, a2}
  WData = {w1, w2}
  Data = {d1, d2}
  NONE = NONE
INVARIANTS
  OneRequestCycle
  AnswerIsTheNextCycles
