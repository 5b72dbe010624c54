SPECIFICATION Spec
CONSTANTS
  NodeId = {n1, n2, n3, n4, n5}
  Client = {c1}
  Worker = {t1}
  Short = Short
  Long = Long
  Other = Other
  Fourth = Fourth
  Path <- FourPaths
  Matches <- PrefixMatches
  N_FILE = 3
  MEM_SIZE = 3
  NULL = NULL
  NoClient = NoClient
  Uninit = Uninit
  TIMER = 1
  Op <- AllOps
  AppendSize = {2, 4}
  ReadCount = {0, 2}
INVARIANTS
  TypeOK
  CountMatches
  RamMatches
  MemoryOvercommitBound
  ListShape
  UndefinedOnlyByListOrUninit
  UniquePaths
  FileOvercommitBound
PROPERTIES
  ScansEnd
