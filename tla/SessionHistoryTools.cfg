SPECIFICATION Spec
CONSTANTS
  worker = worker
  Runners = {worker}
  Prompter = worker
  Drivers = {"tui"}
  MaxBatch = 2
  MaxTurns = 1
  MaxSends = 0
  MaxFaults = 1
  MaxLog = 4
  FaultKinds = {"cut"}
CHECK_DEADLOCK FALSE
INVARIANT
  SessionStaysLoadable
