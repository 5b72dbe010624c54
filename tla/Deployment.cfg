SPECIFICATION Spec
CONSTANTS
  FileId = {f1, f2}
  Client = {5, 6}
  Path <- AllPaths
  Matches <- Exact
  MEM_SIZE = 2
  Size = {0, 1, 2, 3}
  NULL = NULL
  NoClient = NoClient
  User = {u1, u2}
  Commands <- SomeCommands
  Length <- ByteLengths
  Tree <- SmallTree
  Dotted <- Dots
  ConfigFiles <- ShortFiles
  HalfInt <- SmallHalfInt
  LongMax <- SmallLongMax
  Default <- Defaults
  NoName = NoName
  Socket <- UsualSocket
  Crowded <- UsualCrowd
  MaxBoots = 2
CHECK_DEADLOCK FALSE
INVARIANTS
  SessionTypeOK
  PositiveUnlessTooWide
  LeftOpenByFailures
  WalkIsExact
  FooledOnlyAtTheEnd
  ListensOnlyOnce
PROPERTIES
  SessionsEnd
