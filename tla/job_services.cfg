SPECIFICATION FairSpec
CONSTANTS
  j1 = j1
  j2 = j2
  j3 = j3
  e1 = e1
  e2 = e2
  r1 = r1
  r2 = r2
  p1 = p1
  p2 = p2
  none = none
  a = a
  w1 = w1
  k1 = k1
  c1 = c1
  c2 = c2
  t1 = t1
  t2 = t2
  o1 = o1
  NoContent = NoContent
  NoTimer = NoTimer
  OneShot = {a}
  Watch = {w1}
  KeyOf <- KeyOfOne
  Key = {k1}
  Content = {c1, c2}
  Timer = {t1, t2}
  Policies = {"persistent"}
  Outcome <- OneOutcome
  Faults <- LiveFaults
  MaxFaults = 1
  MaxWire = 2
  MaxStream = 2
  MaxSeq = 3
  MaxSync = 1
  None <- none
  listMods = listMods
  showItem = showItem
  NoJob = none
  MaxWorkers = 2
  MaxNudges = 2
  CatalogWorkers = {1, 2}
  RequestOf <- EqualPair
  MaxVersion = 1
  Periodic = {p1, p2}
  Job = {j1, j2, j3}
  Ensure = {e1}
  Refresh = {r1, r2}
  Services = {"query", "forma", "catalog", "source", "worldstate", "sync"}
INVARIANTS
  TypeOK
  QueuesInOrder
PROPERTIES
  ImplementsJobQueue
  CacheTrue
  JobsFinish
  DaemonCatchesUp
CHECK_DEADLOCK FALSE
