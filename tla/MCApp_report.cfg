CONSTANTS
  None = None
  Servers = {1, 2}
  Caps <- MCCaps
  MaxActs = 2
  MaxTurns = 1
  MaxWire = 2
  Posts = {"delete", "disconnect", "add"}
SPECIFICATION MCSpec
INVARIANT ReportOfSelected
CHECK_DEADLOCK FALSE
VIEW View
