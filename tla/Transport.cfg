SPECIFICATION Spec
CONSTANTS
  Client = {c1, c2}
  Worker = {w1, w2}
  Pools = {{w1}, {w1, w2}}
  Mortal = {c1}
  Message <- Requests
  Files <- TwoFiles
  MaxFiles = 1
  MaxAsks = 2
  Capacity = 2
  HEADER = 2
  NULL = NULL
CHECK_DEADLOCK FALSE
INVARIANTS
  TransportTypeOK
  BlockedByTheBusyOnly
  NothingLeftOver
PROPERTIES
  ImplementsMailbox
  EveryoneIsAnswered
