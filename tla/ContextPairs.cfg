SPECIFICATION Spec
CONSTANTS
  KeepRecent = 3
  MaxEntries = 10
  MaxCompactions = 3
  MaxCalls = 1
INVARIANT SessionReloads
CHECK_DEADLOCK FALSE
