SPECIFICATION LiveSpec
CONSTANTS
  Addr = {a1}
  WData = {w1}
  Data = {d1, d2}
  NONE = NONE
INVARIANTS
  AskedOnce
  AnswerIsTheCores
PROPERTIES
  RequestHeld
  ResponseHeld
  TransactionServed
  WriteServed
