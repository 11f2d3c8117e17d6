SPECIFICATION Spec
CONSTANTS
  Events = {e1, e2, e3}
  Workers = {w1, w2}
  NoWorker = NoWorker
  QueueLease = 2
  MaxItems = 2
  MaxEpoch = 1
  MaxClock = 3
  MaxLimit = 2
SYMMETRY QueueSymmetry
CHECK_DEADLOCK FALSE
INVARIANTS TypeOK OneWorker NothingLost OrderMatches
PROPERTIES NoRedelivery AckRespectsLease NoOvertaking OnlyWorkOverflows
