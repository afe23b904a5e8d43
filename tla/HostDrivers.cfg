SPECIFICATION DriversSpec
CONSTANTS
  d1 = d1
  d2 = d2
  Deliveries = {d1, d2}
  MaxPrompts = 1
  MaxGenerations = 2
  MaxFaults = 1
  FaultKinds = {"provider", "disk", "reload", "interrupt"}
  Serial = TRUE
SYMMETRY DeliverySymmetry
CHECK_DEADLOCK FALSE
INVARIANTS
  NothingLostOrDuplicated
  FifoPerQueue
  NoStrandedDelivery
  ContinuationsPaired
  NoLostWakeup
  OwnSession
  DeferredDrained
  ClearedStaysEmpty
PROPERTY
  NextTurnStays
