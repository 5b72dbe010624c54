SPECIFICATION Spec
CONSTANTS
  NodeId = {n1, n2, n3, n4, n5}
  Client = {c1, c2}
  Worker = {t1, t2}
  Short = Short
  Long = Long
  Other = Other
  Fourth = Fourth
  Path <- OnePath
  Matches <- ExactMatches
  N_FILE = 1
  MEM_SIZE = 1
  NULL = NULL
  NoClient = NoClient
  Uninit = Uninit
  TIMER = 2
  Op <- NoReadN
  AppendSize = {1, 2}
  ReadCount = {1}
INVARIANTS
  AppendTargetHeld
PROPERTIES
  WaitsGiveUp
