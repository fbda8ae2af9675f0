SPECIFICATION Spec
CONSTANTS
  Sessions = {s1}
  Conns = {c1, c2}
  NoSession = nosession
  NoQuery = noquery
  QueryLogQueue = 1
  MaxQueries = 1
SYMMETRY Symmetry
CHECK_DEADLOCK FALSE
INVARIANTS
  NoPanic
