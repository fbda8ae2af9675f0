SPECIFICATION FairSpec
CONSTANTS
  Sessions = {s1}
  Conns = {c1}
  Reports = {r1}
  Granted = {"shell", "sftp", "dbeaver", "redis"}
  Server = server
  NoSession = nosession
  SweepLimit = 1
  MaxFaults = 0
  MaxCrashes = 0
PROPERTIES
  UnmaterializedLaunchFails
