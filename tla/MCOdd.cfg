CONSTANTS
  AtmCount = 2
  AccountCount = 1
  IntBound = 8
  PipeCapacity = 2
  HeapWords <- MCHeapWords
  Traces <- OddTraces
  Faults = {"open", "fork"}
SPECIFICATION Spec
CHECK_DEADLOCK FALSE
INVARIANTS
  OneOutstanding
  BankNeverFails
  ParentExitsLast
