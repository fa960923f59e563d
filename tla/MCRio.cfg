CONSTANTS
  Length = 5
  Newlines = {2, 3}
  RIO_BUFSIZE = 2
  PipeSize = 3
  MaxRequest = 4
  MaxSignals = 2
  MaxErrors = 2
SPECIFICATION Spec
CHECK_DEADLOCK FALSE
PROPERTIES
  StreamImplemented
  CallsReturn
