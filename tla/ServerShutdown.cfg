SPECIFICATION Spec
CONSTANTS
  Client = {c1, c2}
  Worker = {w1, w2}
  Pools = {{w1}, {w1, w2}}
  NULL = NULL
  Abrupt = {}
  Signals <- AllSignals
  MaxConnections = 2
CHECK_DEADLOCK FALSE
INVARIANTS
  Custody
  NclientDrift
PROPERTIES
  RequestsAnswered
  IntEnds
  HupEnds
