SPECIFICATION Spec
CONSTANTS
  c1 = c1
  c2 = c2
  w1 = w1
  w2 = w2
  Callers = {c1, c2}
  Watchers = {w1, w2}
  DataItems = 1
  UiItems = 2
  Screenshots = FALSE
  DebugItems = 2
  Buffers = 2
  MaxOddities = 1
  MaxBuilds = 3
  MaxSignals = 1
  MaxRuntimeFaults = 1
  MaxMade = 1
  MaxMessages = 1
  MaxWatches = 1
  MaxMishaps = 1
  MaxJobs = 1
  Pieces = 2
  MaxResponses = 2
  MaxSamples = 4
  MaxAccounts = 1
  Inventories <- BothInventories
  Large <- SecondIsLarge
  MaxGen = 2
  MaxSession = 2
  ControlItems = 5
  SceneWorkers = 2
  MaxEvents = 3
  MaxGame = 2
  MaxFaults = 2
  MaxUiEvents = 3
  MaxSessions = 2
  MaxArms = 2
  MaxGames = 2
  Parts = {"relic", "observer", "overlay", "runtime", "requests", "diagnostics", "captures"}
INVARIANTS
  TypeOK
  ObserverTrue
  NoStalePixels
  ObservationKept
  CallsAnswered
  CapturesHonest
  CompletionsArrive
  ContextsInOrder
PROPERTIES
  StreamsKept
  ScenesInOrder
CHECK_DEADLOCK FALSE
