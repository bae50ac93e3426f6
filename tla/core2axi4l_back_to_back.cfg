SPECIFICATION Spec
CONSTANTS
  Addr = {a1}
  WData = {w1}
  Data = {d1}
  NONE = NONE
INVARIANT BackToBack
