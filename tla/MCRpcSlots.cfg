SPECIFICATION TwoSlotsSpec
CONSTANTS
  Server = {s1}
  Capability = {c1, c2}
  Name = {n1}
  None = None
  Ops = {"write", "create", "select", "delete"}
  MaxUsn = 2
  MaxNonce = 2
  MaxSeq = 2
SYMMETRY Symmetry
INVARIANTS
  NoForeignWrite
  OpenSessionIsActive
  SelectionExists
CHECK_DEADLOCK FALSE
