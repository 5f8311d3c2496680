SPECIFICATION Spec
CONSTANTS
  MaxLen = 5
  Chunk = 3
  Block = 2
  Rounds = 2
  Others = {0, 2}
  ListCap = 2
  MaxCalls = 3
  MaxFaults = 2
INVARIANTS
  ReadIsWhole
  ReportedIsStored
  HandlesClosed
  DirectoryIsTrue
PROPERTIES
  ImplementsFileStore
  CallsEnd
CHECK_DEADLOCK FALSE
