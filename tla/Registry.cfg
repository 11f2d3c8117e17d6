SPECIFICATION Spec
CONSTANTS
  Nodes = {n1, n2}
  NoNode = NoNode
  LeaseTime = 2
  TTL = 2
  MaxStall = 2
  MaxHandlers = 2
  MaxInstances = 2
  MaxBoots = 2
  MaxEpoch = 1
  MaxClock = 6
SYMMETRY NodeSymmetry
CHECK_DEADLOCK FALSE
INVARIANTS NoOrphanInUse OneIssuer
