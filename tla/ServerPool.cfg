SPECIFICATION Spec
CONSTANTS
  Client = {c1, c2, c3}
  Worker = {w1, w2}
  Pools = {{w1, w2}}
  NULL = NULL
  Abrupt <- Client
  Signals <- NoSignals
  MaxConnections = 3
SYMMETRY Sym
CHECK_DEADLOCK FALSE
INVARIANTS
  TypeOK
  Custody
  SleepersNotNeeded
  NclientDrift
PROPERTIES
  QueueIsFifo
