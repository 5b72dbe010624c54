SPECIFICATION Spec
CONSTANTS
  NodeId = {n1, n2, n3, n4}
  Client = {c1}
  Worker = {t1}
  Short = Short
  Long = Long
  Other = Other
  Fourth = Fourth
  Path <- TwoPaths
  Matches <- ExactMatches
  N_FILE = 2
  MEM_SIZE = 2
  NULL = NULL
  NoClient = NoClient
  Uninit = Uninit
  TIMER = 1
  Op <- AllOps
  AppendSize = {1, 2}
  ReadCount = {1}
PROPERTIES
  EvictionCycleEnds
