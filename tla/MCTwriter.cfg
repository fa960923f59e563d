CONSTANTS
  AtmCount = 2
  AccountCount = 2
  IntBound = 16
  PipeCapacity = 1
  HeapWords <- MCHeapWords
  Traces <- TwriterTraces
  Faults = {}
SPECIFICATION FairSpec
INVARIANTS
  TypeOK
  ReplyAnswersCurrent
  ExecutedInTraceOrder
  ActiveCountExact
PROPERTIES
  LedgerImplemented
  Completion
