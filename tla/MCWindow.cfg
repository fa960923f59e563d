CONSTANTS
  CellSize = 2
  Cells = 2
  Heights = {2, 3, 4}
  Beyond = 2
  D = 2
  H = 2
  W = 2
  Whole = 128
  Entries = {5, 44, 46}
  Precision = 6
  Least = 13
SPECIFICATION Spec
PROPERTIES
  InkFromPointer
  ChartCatchesUp
  ChartTellsDigits
