SPECIFICATION Spec
CONSTANTS
  NodeId = {n1, n2, n3, n4}
  Client = {c1, c2}
  Worker = {t1, t2}
  Short = Short
  Long = Long
  Other = Other
  Fourth = Fourth
  Path <- TwoPaths
  Matches <- ExactMatches
  N_FILE = 1
  MEM_SIZE = 1
  NULL = NULL
  NoClient = NoClient
  Uninit = Uninit
  TIMER = 1
  Op <- AllOps
  AppendSize = {1, 2}
  ReadCount = {1}
SYMMETRY Sym
INVARIANTS
  RamMatches
  FileOvercommitBound
  MemoryOvercommitBound
  ListShape
PROPERTIES
  ImplementsTable
  RemovalRespectsHolder
  ReleasedByCloseOrReadN
