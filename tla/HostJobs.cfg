SPECIFICATION Spec
CONSTANTS
  g1 = g1
  g2 = g2
  g3 = g3
  c1 = c1
  l1 = l1
  Changes = {"a", "b", "c"}
  Kind <- MCKind
  Jobs = {"t1", "t2", "c1", "c2"}
  TurnJobs = {"t1", "t2"}
  ChangeJobs = {"c1", "c2"}
  Users = {g1, g2, g3}
  Calls = {c1}
  Lists = {l1}
  MaxRestarts = 1
  MaxGens = 2
  MaxRequests = 2
  MaxForced = 1
  MaxSuspends = 1
  Dialogs = {"p"}
  Logins = {"s"}
INVARIANTS ControllerSafe LifecycleSafe ChangesWithin CallsKept RenderBarrier
PROPERTIES ClosingEnds RequestsRendered
CHECK_DEADLOCK FALSE
