SPECIFICATION RecSpec
CONSTANTS
  Events = {p1, p2}
  Workers = {w1}
  NoWorker = NoWorker
  QueueLease = 1
  MaxItems = 1
  Runs = {r1, r2}
  Faults = {"pull", "enqueue", "restart"}
  MaxPeers = 2
  MaxClaims = 1
SYMMETRY ReconcileSymmetry
INVARIANT ChangesBecomeWork
INVARIANT CountedOnce
