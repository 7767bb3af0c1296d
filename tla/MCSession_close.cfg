SPECIFICATION CloseLiveSpec
VIEW Reachable
CONSTANTS
  Callers = {c1}
  Sids = {1, 2}
  Conns = {1, 2}
  None = None
  InitialBackoff = 1
  MaxBackoff = 1
INVARIANT NoConnectionLeak
PROPERTIES
  CloseReturns
