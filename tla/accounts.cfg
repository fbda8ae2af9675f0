CONSTANTS
  admin = admin
  user = user
  p1 = p1
  p2 = p2
  Names = {admin, user}
  BootstrapAdmin = admin
  Passwords = {p1, p2}
  NoPassword = NoPassword
  BootstrapPassword = p1
  MappedRoles = {"admin"}
  Requests = {r1, r2}
  LoginInputs <- MCLoginInputs
  StartupConfig <- MCStartupConfig
  SettingsTried <- MCSettingsTried
  InitialSettings <- MCSettings
  InitialDirectory <- MCDirectory
  DirectoriesTried <- MCDirectories
  Window = 1
  MaxAttempts = 1
  MaxSessions = 2
  MaxEdits = 1
SPECIFICATION Spec
INVARIANTS
  TypeOK
  LimiterBound
PROPERTIES
  SessionsOverlap
  LocalAccountsKept
  LockoutEnds
