CONSTANTS
  a = a
  b = b
  h = h
  term = term
  ResetTimes <- MCResetTimes
  Worktrees <- MCWorktrees
  Removable <- MCNone
  SessionIds <- MCSessionIds
  Shown <- MCShown
  MaxPending = 3
  KeepClosed = 1
  MaxId = 2
  MaxCalls = 3
  MaxFaults = 0
  Target = b
  HostedId = h
  Unhosted <- MCTerminal
  Marks <- MCDone
  MaxNotices = 2
  MaxExtras = 2
SPECIFICATION DSpec
INVARIANT OnePerTurn
PROPERTIES DeliveryOrderly EventuallyDelivered
CHECK_DEADLOCK FALSE
