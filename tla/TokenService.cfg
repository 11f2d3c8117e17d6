SPECIFICATION Spec
CONSTANTS
  Nodes = {n1, n2, n3}
  NoNode = NoNode
  Patient = {n1, n2}
  LeaseTime = 1
  MaxEvents = 1
  MaxOrphans = 1
  MaxClock = 2
  MaxSeq = 2
SYMMETRY PatientSymmetry
CHECK_DEADLOCK FALSE
INVARIANTS TypeOK LeaseHonoured MutualExclusion
PROPERTIES LeaseSpec NoTheft
