SPECIFICATION Spec
CONSTANTS
  Nodes = {n1}
  NoNode = NoNode
  LeaseTime = 1
  MaxEvents = 2
  Events = {e1, e2}
  Workers = {w1, w2}
  NoWorker = NoWorker
  QueueLease = 1
  MaxItems = 1
  MaxRequests = 2
  MaxEpoch = 2
  MaxClock = 2
  MaxLimit = 1
  MaxSeq = 5
SYMMETRY DispatchSymmetry
CHECK_DEADLOCK FALSE
INVARIANTS EpochsIssued LogTellsQueue
PROPERTIES QueueSpec ClosedEpochIsFenced
