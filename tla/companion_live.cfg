SPECIFICATION FairSpec
CONSTANTS
  c1 = c1
  c2 = c2
  w1 = w1
  w2 = w2
  Callers = {c1}
  Watchers = {w1, w2}
  DataItems = 1
  UiItems = 4
  Screenshots = FALSE
  DebugItems = 1
  Buffers = 2
  MaxOddities = 1
  MaxBuilds = 3
  MaxSignals = 1
  MaxRuntimeFaults = 1
  MaxMade = 1
  MaxMessages = 1
  MaxWatches = 1
  MaxMishaps = 1
  MaxJobs = 1
  Pieces = 2
  MaxResponses = 2
  MaxSamples = 4
  MaxAccounts = 1
  Inventories <- BothInventories
  Large <- SecondIsLarge
  MaxGen = 2
  MaxSession = 1
  ControlItems = 3
  SceneWorkers = 1
  MaxEvents = 2
  MaxGame = 2
  MaxFaults = 2
  MaxUiEvents = 2
  MaxSessions = 1
  MaxArms = 2
  MaxGames = 1
  Parts = {"relic", "observer", "overlay", "runtime", "requests", "diagnostics", "captures", "sampler"}
PROPERTIES
  PartsSettle
  NothingStaysDue
CHECK_DEADLOCK FALSE
