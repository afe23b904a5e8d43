SPECIFICATION Spec
CONSTANTS
  main = main
  job = job
  Runners = {main, job}
  Prompter = main
  Drivers = {"tui", "line"}
  MaxBatch = 2
  MaxTurns = 2
  MaxSends = 2
  MaxFaults = 1
  MaxLog = 3
  FaultKinds = {"provider", "stream", "overflow", "cut", "hook", "block", "disk", "cancel"}
CHECK_DEADLOCK FALSE
INVARIANTS
  HistoriesInOrder
  RequestMatchesSession
  HostFollowsSession
  
