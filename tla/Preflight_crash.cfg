SPECIFICATION RunSpec
CONSTANTS
  Requests = {h1}
  OnZfs = {FALSE}
  Faults = {"crash"}
  MaxVersion = 2
  MaxSecond = 2
  MaxMishaps = 1
SYMMETRY RequestSymmetry
CHECK_DEADLOCK FALSE
INVARIANT ChangesKept
