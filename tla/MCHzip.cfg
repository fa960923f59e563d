CONSTANTS
  NUMBER_OF_CHARS = 5
  MAXSIZE = 5
  MaxInput = 4
  MaxFreq = 2
  Inputs <- Files
  ByteBits = 3
  HashByte = 1
  IoFaults = {"fopen", "fprintf", "fputc", "flush"}
SPECIFICATION Spec
INVARIANTS
  ForestOfAllNodes
  QueueHasRoom
  OptimalTree
  FormatHolds
  RoundTrip
  CrashesOnlyOn
PROPERTY
  BothEnd
