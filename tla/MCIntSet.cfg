CONSTANTS
  Values = {0, 1, 2, 3, 4}
  Capacity = 3
  NULL = NULL
SPECIFICATION Spec
INVARIANT
  NodesMoveAround
PROPERTY
  RecentImplemented
