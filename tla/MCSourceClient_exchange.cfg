SPECIFICATION FairSpec
CONSTANTS
  Calls = {x1, x2}
  Dialler = Dialler
  None = None
  MaxId = 3
  MaxParts = 1
VIEW Current
INVARIANTS
  TypeOK
  WholeResponse
  AcceptedByServer
  AlignedReads
PROPERTIES
  CallsEnd
  WatchersEnd
CHECK_DEADLOCK FALSE
