CONSTANTS
  a = a
  b = b
  s1 = s1
  ResetTimes <- MCResetTimes
  Worktrees <- MCWorktrees
  Removable <- MCRemovable
  SessionIds <- MCSessionIds
  Shown <- MCIdle
  MaxPending = 2
  KeepClosed = 1
  MaxId = 2
  MaxCalls = 1
  MaxFaults = 1
SPECIFICATION MSpec
INVARIANTS NothingUnapproved Durable
PROPERTIES AtMostOnce Approvals
