CONSTANTS
  win_tree = win_tree
  wsl_tree = wsl_tree
  linux = linux
  slot = slot
  Worktrees <- MCWorktrees
  Distros <- MCDistros
  Distro <- MCDistro
  Slots <- MCSlots
  Sweeps <- MCSweeps
  Debounce = 1
  MaxDelay = 2
  request = request
  resident = resident
  aside = aside
  Newest = 2
  Installed = 1
  Released <- MCReleased
  Requests <- MCRequests
  Checkers <- MCCheckers
  Daemon = resident
  MaxFaults = 1
  Claude = {"claude"}
  Codex = {"codex"}
  DefaultCodex = "codex"
  Users = {"u1"}
  Windows <- MCWindows
  MaxRounds = 2
  MaxLogins = 2
  MaxEvents = 1
  Clients = {"c1", "c2", "c3"}
  MaxConnects = 4
SPECIFICATION MCSpec
INVARIANTS ScheduleKept
PROPERTIES ShownInTheEnd Resolved UsageShown MetricsReach
CONSTRAINT NoHarm
CHECK_DEADLOCK FALSE
