SPECIFICATION Spec
CONSTANTS
  Sessions = {s1}
  Conns = {c1, c2}
  NoSession = nosession
  NoQuery = noquery
  QueryLogQueue = 1
  MaxQueries = 2
SYMMETRY Symmetry
CHECK_DEADLOCK FALSE
INVARIANTS
  TypeOK
  LogInOrder
  EntriesVouch
  DrainedOnReturn
