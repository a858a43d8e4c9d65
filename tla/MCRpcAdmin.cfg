SPECIFICATION Spec
CONSTANTS
  Server = {s1}
  Capability = {c1, c2}
  Name = {n1}
  None = None
  Ops = {"create"}
  MaxUsn = 3
  MaxNonce = 2
  MaxSeq = 1
SYMMETRY Symmetry
INVARIANTS
  AdminReplyIsOwnEffect
CHECK_DEADLOCK FALSE
