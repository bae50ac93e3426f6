SPECIFICATION Spec
CONSTANTS
  Heats <- ColdOrWarm
  Jobs <- Calls
  Wrap = 10
  Heap = 2
  HeapSize = 3
  Sizes <- AnySizes
  Values <- Marks
  Blank = 7
  MaxCalls = 4
  bss_start = 8
  bss_ends <- AnyEnd
INVARIANTS SubkeysAreFips CipherIsFips DecryptionRetraces CrcIsReference BlocksKept CheckHeapTells
           ProgramsSucceed
