SPECIFICATION Spec
CONSTANTS
  p1 = p1
  p2 = p2
  r1 = r1
  r2 = r2
  t1 = t1
  t2 = t2
  Procs = {p1, p2}
  MaxLogEntries = 3
  MaxLogFaults = 2
  Requests = {r1, r2}
  Turns = {t1, t2}
  MaxAdapters = 2
  Packages = {"a", "b"}
  Deps <- MCDeps
  MaxCommands = 3
  MaxCrashes = 1
  Providers = {"a", "b"}
  MaxChanges = 3
  MaxFileFaults = 1
  AgentNames = {"a", "b", "c"}
  ToolsOf <- MCToolsOf
  AllTools = {"subagent", "x", "y"}
  Offered = {"subagent", "x"}
  DepthLimit = 2
  MaxRuns = 3
  MaxRunFaults = 2
  MaxToggles = 2
  Emits = {"e1", "e2", "e3"}
  Subs = {"s1", "s2"}
  QueueLimit = 1
  Texts = {"x", "y"}
  MaxLines = 3
  Heights = {2, 3}
  Updates = 2
  MaxLives = 2
  MaxTroubles = 2
  Senders = {p1, p2}
  MaxSends = 3
  Buffer = 1
  Me = p1
  Other = p2
  RingSize = 2
  SubBuffer = 1
  MaxEvents = 3
  KeepRecent = 1
  MaxEntries = 6
  MaxCompactions = 2
  MaxCalls = 1
  Dialogs = {"p", "q"}
  Logins = {"s"}
  Editors = {"custom"}
  SwapDialogs = {"p"}
  MaxSwaps = 2
INVARIANTS ContextOfWriter OneOutcome StoreConsistent CredentialsKept DelegationSafe
           EventsDelivered ScreenShows  RepliesAccounted
           CompactionHonest
PROPERTIES ImplementsTree
CHECK_DEADLOCK FALSE
