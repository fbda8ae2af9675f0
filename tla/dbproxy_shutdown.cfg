SPECIFICATION FairSpec
CONSTANTS
  Sessions = {s1}
  Conns = {c1, c2}
  NoSession = nosession
  NoQuery = noquery
  QueryLogQueue = 1
  MaxQueries = 1
CHECK_DEADLOCK FALSE
PROPERTIES
  ForcedCloseReturns
