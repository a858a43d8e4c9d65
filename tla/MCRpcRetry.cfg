SPECIFICATION Spec
CONSTANTS
  Server = {s1, s2}
  Capability = {c1, c2}
  Name = {n1}
  None = None
  Ops = {"write", "create"}
  MaxUsn = 2
  MaxNonce = 2
  MaxSeq = 2
SYMMETRY Symmetry
PROPERTIES
  KeepsPromise
  OnlyOpenSessionWrites
CHECK_DEADLOCK FALSE
