SPECIFICATION Spec
CONSTANTS
  i1 = i1
  i2 = i2
  t1 = t1
  t2 = t2
  Parts = {"reads", "scan", "graph", "recording", "walk", "catalog", "screen", "rewards", "log", "corpus", "compare", "infer", "bytecode", "cache", "payloads", "stream"}
  MaxChanges = 2
  MaxReads = 1
  Chunk = 4
  Cell = 2
  ScanLengths <- TwoRanges
  MatchLimit = 3
  ByteBudget = 7
  BlockCount = 4
  RootCount = 2
  MaxDepth = 1
  MaxBlocks = 3
  MaxBlocksPerRoot = 3
  MaxChildBlocks = 2
  RecordedCells = 4
  Border = 3
  MaxBytes = 3
  MaxRanges = 2
  MaxFragments = 2
  MaxAsked = 2
  Places = 3
  BlockSize = 2
  WalkDepth = 2
  MaxWalkBlocks = 3
  WalkRoots <- TwoRoots
  Targets <- CollectOrFindThird
  MaxKept = 8
  MaxRewrites = 1
  Objects = 2
  Resources = 4
  MaxItems = 2
  MinPool = 1
  MaxHops = 2
  MaxMoves = 1
  MaxMovies = 2
  MaxContainers = 2
  Shapes = {1, 2}
  MaxChildren = 3
  MaxNames = 1
  Threads = {t1, t2}
  MaxRecords = 2
  LogItems = 2
  LogInfoItems = 1
  RecentItems = 1
  Inspectors = {i1, i2}
  SnapshotNames = {"a", "b"}
  MaxVersion = 2
  MaxTroubles = 2
  Paths = {"a", "b"}
  Lost = "c"
  MaxPrototypes = 3
  MaxPlayers = 3
  ScriptBodies <- SixBodies
  MinWords = 2
  MaxBodies = 2
  GroupValues = 2
  Groups = 3
  ChunkBytes = 5
  MaxConstants = 1
  MaxRows = 2
  MaxSize = 4
  MaxResourceBytes = 3
  MaxMatches = 2
  Watches = {"w1", "w2"}
  Payloads = {"p", "q"}
  WatchLimit = 2
  MaxFailures = 2
  EventLimit = 2
  MaxSent = 4
INVARIANTS
  TypeOK
  OneMoment
  SearchesMissNothing
  CapturesReplay
  MeaningKept
  LogAccounts
  SnapshotsStand
  OutputsStand
PROPERTIES
  BuildsOnIntact
CHECK_DEADLOCK FALSE
