SPECIFICATION Spec
CONSTANTS
  ReqBuf = 2
  MaxRequests = 5
  Paths = {"a", "b"}
  Asked <- MCAsked
  NoPath = ""
  Handles = {1}
  MaxPackets = 4
  MaxChunk = 2
  MaxLost = 1
  Texts = {"q1", "q2", "set", "cache"}
  Blank = " "
  Nothing = "none"
  Probes = {"set"}
  CacheProbes = {"cache"}
  Runs <- MCRuns
  Length <- MCLength
  ProbeLimit = 1
  MaxMessages = 4
  Endpoints = {"v6", "name22"}
  Keys = {"k1", "k2"}
  NoKey = "none"
  Dials = {1, 2}
  MaxLines = 2
  MaxChanges = 1
CHECK_DEADLOCK FALSE
INVARIANTS
  TypeOK
  PathsTrue
  OperationsRecorded
  LoggedIsRun
  InStep
  AcceptedKept
PROPERTIES
  BridgeEnds
