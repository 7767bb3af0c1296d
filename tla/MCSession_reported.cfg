SPECIFICATION OpenSpec
CONSTANTS
  Callers = {c1, c2}
  Sids = {s1, s2}
  Conns = {k1, k2, k3}
  None = None
  InitialBackoff = 1
  MaxBackoff = 1
SYMMETRY Symmetry
INVARIANT ConnectionIsReported
