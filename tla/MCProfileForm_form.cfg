SPECIFICATION Spec
CONSTANTS
  Windows = {w1, w2}
  Runs = {r1, r2}
  None = None
  Addrs = {Blank, a}
  Blank = Blank
  Names = {Unset, n}
  Unset = Unset
  Prints = {unknown, zomboid}
  MaxEdits = 3
  MaxSaves = 2
VIEW View
SYMMETRY Symmetry
INVARIANT RowIsWhole
