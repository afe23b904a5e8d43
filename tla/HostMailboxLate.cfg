SPECIFICATION Spec
CONSTANTS
  d1 = d1
  Deliveries = {d1}
  MaxPrompts = 1
  MaxGenerations = 1
  MaxFaults = 0
  FaultKinds = {}
  Serial = TRUE
CHECK_DEADLOCK FALSE
PROPERTY
  LateMessageIsDelivered
