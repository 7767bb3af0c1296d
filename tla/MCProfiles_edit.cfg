SPECIFICATION RunSpec
CONSTANTS
  Callers = {c1, c2}
  Users = {c2}
  Sids = {s1, s2}
  Conns = {k1, k2}
  Addrs = {a1, a2}
  Passwords = {p1, p2}
  None = None
  Keep = Keep
  NoRow = NoRow
  InitialBackoff = 1
  MaxBackoff = 1
VIEW Reachable
SYMMETRY Symmetry
INVARIANTS
  ProfilesTypeOK
  SessionUsesStoredProfile
  ProfilesInv
