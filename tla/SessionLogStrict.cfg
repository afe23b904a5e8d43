SPECIFICATION Spec
CONSTANTS
  p1 = p1
  Procs = {p1}
  Strict = TRUE
  MaxEntries = 3
  MaxFaults = 1
INVARIANT RecoveredLoads
CHECK_DEADLOCK FALSE
