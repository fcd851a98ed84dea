SPECIFICATION MCSpec
CONSTANTS
  ResetTimes <- MCResetTimes
  Callers = {h1, h2}
  Sessions = {s1, s2}
  StaleEvery = 2
  MaxCalls = 5
  Agents = {a}
  Trees = {x, y}
  Commands = {c, d}
  None = None
  MaxCommits = 1
INVARIANTS RemindersRight
PROPERTIES StatusKept PrGate
CHECK_DEADLOCK FALSE
SYMMETRY MCSymmetry
