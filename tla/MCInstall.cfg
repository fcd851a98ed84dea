CONSTANTS
  one = one
  two = two
  resident = resident
  aside = aside
  Newest = 2
  Installed = 1
  Released <- MCReleased
  Requests <- MCRequests
  Checkers <- MCCheckers
  Daemon = resident
  MaxFaults = 1
  Procs = {one, two}
  Entries = {e}
  Skips = {{}, {"c"}}
  Missing = Missing
  MaxStarts = 2
  MaxEdits = 1
  MaxCrashes = 1
SPECIFICATION MCSpec
INVARIANTS SomethingGoodToStart OneApply
PROPERTIES SetupKept
CONSTRAINT FewHarms
CHECK_DEADLOCK FALSE
SYMMETRY MCSymmetry
