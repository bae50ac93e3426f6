SPECIFICATION LiveSpec
CONSTANTS
  Addr = {a1, a2}
  WData = {w1, w2}
  Data = {d1, d2}
  NONE = NONE
INVARIANTS
  OneBeatEach
  BeatsMatch
  AnswersPassedOn
  ErrIsOwn
PROPERTIES
  AxiStable
  RequestServed
