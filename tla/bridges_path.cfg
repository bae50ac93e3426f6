SPECIFICATION LiveSpec
CONSTANTS
  Addr = {a1}
  WData = {w1, w2}
  Data = {d1}
  NONE = NONE
INVARIANTS
  TargetAskedTheSame
  CoreAnsweredTheSame
  NothingLeft
PROPERTY Served
