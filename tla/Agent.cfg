SPECIFICATION Spec
CONSTANTS
  Nodes = {n1, n2}
  NoNode = NoNode
  LeaseTime = 7
  RenewAfter = 2
  RetryAfter = 1
  Timeout = 1
  MaxFailures = 1
  MaxRestarts = 1
INVARIANTS TypeOK KeepsToken
PROPERTY FailsOver
