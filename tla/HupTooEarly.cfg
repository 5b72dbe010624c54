SPECIFICATION Spec
CONSTANTS
  Client = {c1, c2}
  Worker = {w1}
  Pools = {{w1}}
  NULL = NULL
  Abrupt = {}
  Signals <- HupOnly
  MaxConnections = 2
SYMMETRY Sym
CHECK_DEADLOCK FALSE
INVARIANTS
  HupWaitsForClients
