SPECIFICATION RunSpec
CONSTANTS
  Requests = {h1, h2}
  OnZfs = {TRUE, FALSE}
  Faults = {"list", "read", "snapshot", "diff", "destroy", "walk", "save", "register", "write", "flag", "crash"}
  MaxVersion = 3
  MaxSecond = 3
  MaxMishaps = 2
SYMMETRY RequestSymmetry
CHECK_DEADLOCK FALSE
INVARIANT NoChangeLost
INVARIANT SnapshotsTended
INVARIANT AlarmedOnce
INVARIANT BaseUsable
