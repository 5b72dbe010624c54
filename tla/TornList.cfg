SPECIFICATION Spec
CONSTANTS
  NodeId = {n1, n2, n3, n4, n5}
  Client = {c1}
  Worker = {t1}
  Short = Short
  Long = Long
  Other = Other
  Fourth = Fourth
  Path <- FourPaths
  Matches <- ExactMatches
  N_FILE = 3
  MEM_SIZE = 8
  NULL = NULL
  NoClient = NoClient
  Uninit = Uninit
  TIMER = 1
  Op <- Creating
  AppendSize = {1}
  ReadCount = {1}
SYMMETRY Sym
INVARIANTS
  RemovedIsUnlinked
