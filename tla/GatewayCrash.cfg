SPECIFICATION Spec
CONSTANTS
  Actors = {a1}
  Workspaces = {w1}
  MaxActive = 1
  Msgs = {m1, m2}
  ChatOf <- MCChatOf
  Resolves <- OneBound
  Submitters = {s1}
  MailboxSize = 1
  MaxAdmission = 2
  MaxLives = 3
  MaxCancels = 0
  MaxTroubles = 1
  None = None
  m1 = m1
  m2 = m2
  m3 = m3
  w1 = w1
  a1 = a1
  a2 = a2
SYMMETRY MCSymmetry
CHECK_DEADLOCK FALSE
INVARIANTS
  RunOnce
  TurnOwnsRecord
  SlotsBalanced
  AckedOwned
PROPERTIES
  SettledStays
