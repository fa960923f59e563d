CONSTANTS
  a = a
  b = b
  Letters = {a, b}
  Newline = newline
  Tables <- MCTables
  BufferSize = 4
  CountBits = 8
  MaxText = 7
SPECIFICATION Spec
INVARIANT
  CountsOccurrences
PROPERTY
  Returns
