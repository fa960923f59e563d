CONSTANTS
  Letters = {a}
  Blank = blank
  MaxInput = 6
  Words <- MCWords
  Nodes = {n1, n2, n3}
  NULL = NULL
  HEAD = HEAD
  MaxFreq = 3
  ClientWords <- MCClientWords
  ClientFreq = 2
SPECIFICATION MCSpec
SYMMETRY Symmetry
INVARIANTS
  ListIsTheSet
  CountsOccurrences
  ListedInOrderOfUse
PROPERTIES
  OthersKeepOrder
  BagImplemented
