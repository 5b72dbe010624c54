SPECIFICATION Spec
CONSTANTS
  Client = {c1}
  Worker = {w1}
  Pools = {{w1}}
  NULL = NULL
  Abrupt = {}
  Signals <- HupOnly
  MaxConnections = 1
SYMMETRY Sym
CHECK_DEADLOCK FALSE
PROPERTIES
  OnlyClientsAreRead
