SPECIFICATION Spec
CONSTANTS
  NodeId = {n1, n2, n3, n4}
  Client = {c1}
  Worker = {t1}
  Short = Short
  Long = Long
  Other = Other
  Fourth = Fourth
  Path <- ThreePaths
  Matches <- PrefixMatches
  N_FILE = 2
  MEM_SIZE = 2
  NULL = NULL
  NoClient = NoClient
  Uninit = Uninit
  TIMER = 1
  Op <- AllOps
  AppendSize = {1}
  ReadCount = {1}
SYMMETRY Sym
INVARIANTS
  SearchFindsKey
