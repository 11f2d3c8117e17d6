SPECIFICATION Spec
CONSTANTS
  Nodes = {n1}
  Peers = 2
  Timeout = 1
  Window = 11
  MaxLate = 1
  MaxLost = 1
  MaxSkew = 1
  Settle = 7
INVARIANTS AliveIsActive SilentIsInactive
