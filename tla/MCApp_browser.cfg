CONSTANTS
  None = None
  Servers = {1, 2}
  Caps <- MCCaps
  MaxActs = 2
  MaxTurns = 1
  MaxWire = 2
  Posts = {"delete", "add"}
SPECIFICATION MCSpec
INVARIANTS
  TypeOK
  
  TabFollowsReport
PROPERTIES
  ChosenTabStays
  Settles
CHECK_DEADLOCK FALSE
VIEW View
