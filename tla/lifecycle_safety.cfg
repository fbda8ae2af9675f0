SPECIFICATION Spec
CONSTANTS
  Sessions = {s1}
  Conns = {c1, c2}
  Reports = {r1}
  Granted = {"shell", "redis", "dbeaver"}
  Server = server
  NoSession = nosession
  SweepLimit = 1
  MaxFaults = 1
  MaxCrashes = 0
SYMMETRY Symmetry
INVARIANTS
  TypeOK
  RowShape
  ClaimedNotPending
  AuditTrail
  NoConnectionNoActive
PROPERTIES
  SweepSparesClaimed
  RowSpec
