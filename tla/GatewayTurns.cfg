SPECIFICATION FairSpec
CONSTANTS
  Actors = {a1, a2}
  Workspaces = {w1, w2}
  MaxActive = 1
  Msgs = {m1, m3}
  ChatOf <- MCChatOf
  Resolves <- OneBound
  Submitters = {s1}
  MailboxSize = 1
  MaxAdmission = 2
  MaxLives = 1
  MaxCancels = 1
  MaxTroubles = 0
  None = None
  m1 = m1
  m2 = m2
  m3 = m3
  w1 = w1
  a1 = a1
  a2 = a2
CHECK_DEADLOCK FALSE
INVARIANTS
  MutualExclusion
  ActiveCap
PROPERTIES
  AckedSettles
