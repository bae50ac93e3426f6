SPECIFICATION LiveSpec
CONSTANTS
  Radix = 7
  PERIOD = 3
  TICKS = 2
  Colors = {0, 1}
  Buttons = {b1, b2}
  MaxTime = 32
INVARIANTS
  TimeIsExact
  NoDrift
  LedsCount
PROPERTIES
  NeverEarly
  DeadlineServed
