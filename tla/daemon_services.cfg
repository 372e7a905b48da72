SPECIFICATION ServicesFairSpec
CONSTANTS
  s1 = s1
  s2 = s2
  d = d
  good = good
  bad = bad
  NoToken = NoToken
  Me = "first"
  Service = {s1, s2, d}
  Daemon = d
  Order <- DaemonLast
  Slow = {s2}
  MaxVersion = 2
  MaxStale = 1
  Services = {"update", "pair", "presence"}
  Good = {good}
  Bad = {bad}
  Mode = {"auto", "online"}
  MaxMessages = 1
  MaxTimers = 2
  MaxFaults = 1
INVARIANTS
  ServicesTypeOK
  PresenceTrue
PROPERTIES
  UpdatesSafe
  ServicesSettle
