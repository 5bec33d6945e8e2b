SPECIFICATION Spec
CONSTANTS
  Sessions = {s1, s2}
  Implementers = {s1}
  Heads = {h1, h2}
  Ids = {e1, e2}
  None = None
  MaxEpoch = 2
  MaxFaults = 1
SYMMETRY HeadsAlike
INVARIANT ApprovalTypeOK
PROPERTY OpenedStands
CHECK_DEADLOCK FALSE
