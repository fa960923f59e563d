CONSTANTS
  AtmCount = 2
  AccountCount = 2
  IntBound = 16
  PipeCapacity = 1
  HeapWords <- MCHeapWords
  Traces <- TwriterTraces
  Faults = {}
SPECIFICATION Spec
PROPERTIES
  BalanceOfTheAccountAsked
