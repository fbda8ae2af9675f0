SPECIFICATION Spec
CONSTANTS
  Procs = {1, 2}
  MaxStarts = 2
  MaxAging = 1
  Jobs <- MCJobs
  SiteOf <- MCSiteOf
  Verifiers = {"local", "remote"}
  NoSession = "none"
  MaxLaunches = 2
  MaxStops = 1
  Bridges = {1, 2}
  Proxies = {"a", "b", "c"}
  Port22 = {"c"}
  ProxyKeys = {"k1", "k2"}
  Unknown = "unknown"
  MaxBridges = 3
  MaxRotations = 1
CHECK_DEADLOCK FALSE
INVARIANTS
  TypeOK
  OneClient
  SiteIsOwn
  PreparedConsistent
PROPERTIES
  TrustKept
  DirsRemoved
