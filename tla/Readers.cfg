SPECIFICATION Spec
CONSTANTS
  None = None
  Bytes <- MCBytes
  Lines <- MCLines
  MaxLines = 2
  MaxLine = 3
  MaxTail = 4
  ChunkSize = 6
INVARIANTS
  LinesAreAsWritten
  BlocksStandAlone
  TailIsTheEnd
PROPERTIES
  DrainsThePipe
CHECK_DEADLOCK FALSE
