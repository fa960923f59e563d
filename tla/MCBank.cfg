CONSTANTS
  AtmCount = 2
  AccountCount = 1
  IntBound = 4
  PipeCapacity = 2
  MaxSent = 4
  HeapWords <- MCHeapWords
  Inputs <- MCInputs
SPECIFICATION AloneSpec
CHECK_DEADLOCK FALSE
INVARIANTS
  FirstComeFirstServed
  ClosesAtLastExit
  Conservation
PROPERTIES
  NoOverdraft
