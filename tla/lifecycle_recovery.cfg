SPECIFICATION FairSpec
CONSTANTS
  Sessions = {s1, s2}
  Conns = {}
  Reports = {r1, r2}
  Granted = {"shell", "dbeaver"}
  Server = server
  NoSession = nosession
  SweepLimit = 1
  MaxFaults = 1
  MaxCrashes = 1
CONSTRAINT TokensUnused
PROPERTIES
  StuckLaunchSwept
