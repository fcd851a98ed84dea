SPECIFICATION MCSpec
CONSTANTS
  Ids = {a, d, w}
  Linux = {w}
  Delegators = {d}
  Statuses = {idle, busy}
  Titles = {t}
  Absent = Absent
  Cap = 2
  MaxGroups = 2
  MaxOps = 2
  Worktrees = {a, b}
  MaxStarts = 1
  MaxStops = 1
  MaxCommits = 3
  MaxEdits = 2
  MaxFails = 2
INVARIANTS KeysWhereMeant
PROPERTIES FleetTrue Converges ScreenSettles ChangesTrue
CHECK_DEADLOCK FALSE
