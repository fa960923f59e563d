CONSTANTS
  AtmCount = 2
  AccountCount = 1
  IntBound = 8
  PipeCapacity = 2
  HeapWords <- MCHeapWords
  Traces <- DamagedTrace
  Faults = {}
SPECIFICATION FairSpec
CHECK_DEADLOCK FALSE
PROPERTIES
  BankStopsWithoutAtms
