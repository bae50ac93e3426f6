SPECIFICATION SlaveLiveSpec
CONSTANTS
  Addr = {a1}
  WrAddr = {a1}
  RdAddr = {a1}
  WData = {w1}
  Data = {d1}
  NONE = NONE
  Top = 3
INVARIANTS
  BeatsAccounted
  JunkNeverUsed
PROPERTIES
  StallKeepsBeats
  BeatsServed
