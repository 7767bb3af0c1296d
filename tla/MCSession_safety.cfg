SPECIFICATION OpenSpec
CONSTANTS
  Callers = {c1, c2}
  Sids = {s1, s2}
  Conns = {k1, k2, k3}
  None = None
  InitialBackoff = 2
  MaxBackoff = 3
VIEW Settled
SYMMETRY Symmetry
INVARIANTS
  TypeOK
  NoDoubleClose
  SupervisorReachable
  NoLostWakeup
  NoConnectionLeak
  NoOrphanSession
  ExchangeStaysInSession
  RetryDiscipline
  IInv
