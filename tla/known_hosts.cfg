SPECIFICATION HostKeysSpec
CONSTANTS
  Endpoints = {"address", "v6", "name", "name22"}
  Keys = {"k1", "k2"}
  NoKey = "none"
  Dials = {1, 2}
  MaxLines = 3
  MaxChanges = 3
CHECK_DEADLOCK FALSE
INVARIANT
  NoRestartNeeded
