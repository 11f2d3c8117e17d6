SPECIFICATION LeadSpec
CONSTANTS
  Nodes = {n1, n2}
  NoNode = NoNode
  LeaseTime = 1
  Clients = {c1, c2}
  MaxEpoch = 2
  MaxClock = 3
SYMMETRY Symmetry
INVARIANTS EpochsNeverGoBack OneLeaderPerEpoch NamesTheHolder
